---- MODULE Spec2Model ----
(***************************************************************************)
(* A model of xepto50's per-curve pipeline (class XCal of cal.py and the   *)
(* functions of utils/utils.py, utils/curve_fitting.py, utils/scores.py),  *)
(* and of the window of gui.py with its worker threads.                    *)
(*                                                                         *)
(* Every real number is a fixed point integer counting thousandths:        *)
(* responses (inhibition, min_val, max_val) in 0.001 percent, log10 doses  *)
(* in 0.001 decade, slopes in 0.001. Concentrations are whole numbers of   *)
(* the caller's unit.                                                      *)
(* The conversion factor of a unit is kept as its decimal exponent         *)
(* (factor = 10^exponent).                                                 *)
(***************************************************************************)
EXTENDS Integers, Sequences, FiniteSets

VARIABLES
    pc,                   \* position of the caller in XCal(...).run()
    error,                \* the exception that ended the call, "" when none
    inp,                  \* the arguments XCal was constructed with
    df,                   \* self.df: the frame create_df returned (<<>>: none)
    initial_fit_results,  \* self.initial_fit_results: a 4-tuple (<<>>: none)
    lmfit_params,         \* fit_lm_4pl's Parameters object (<<>>: none)
    fit_log,              \* the calls of lmfit_model.fit made so far
    model1,               \* fit_lm_4pl's lmfit_fitted_model1 (<<>>: none)
    model2,               \* fit_lm_4pl's lmfit_fitted_model2 (<<>>: none)
    lmfit_fitted_model,   \* the model fit_lm_4pl keeps, then self.lmfit_fitted_model
    ic50std_residual,     \* fit_lm_4pl's <<ic50std_residual1, ic50std_residual2>>
    ic50,                 \* self.ic50 (<<>>: None, else <<value>>)
    log10dose_fine,       \* self.log10dose_fine: the grid (<<>>: None)
    fitted_curve_fine,    \* self.fitted_curve_fine: the final model on the grid
    fitted_values,        \* self.fitted_values: the final model at the tested doses
    adjusted,             \* self.min_inhibition and self.max_inhibition (<<>>: None)
    interpolated,         \* self.dose_interpolated, dose_interpolated_at and
                          \* log10_dose_interpolated (<<>>: None)
    score,                \* what scores() stores: auc, xepto50, qs, dss1..dss3 (<<>>: None)
    drug_results,         \* the dictionary run() returned (<<>>: none)
    dss_call,             \* the arguments of the last call of dss (<<>>: none)
    dss_result,           \* what that call returned
    fit4pl_call,          \* the arguments and solver outcome of a call of fit_curve_4pl
    fit4pl_result,        \* what that call returned
    pl_call,              \* the arguments of two evaluations of _4pl (<<>>: none)
    pl_result,            \* their values <<y1, y2>>
    x50_pc,               \* position of a caller that runs curves one after another
    batch,                \* the XCal(...) calls that caller makes, in order
    dfs,                  \* x50's list dfs: the dictionaries appended so far
    x50_result,           \* what that caller got back (<<>>: nothing)
    x50_error,            \* the exception that ended that caller, "" when none
    two_pc,               \* position of a caller that runs two curves side by side
    pair,                 \* the two XCal(...) calls of that caller
    other,                \* the attributes of the XCal object that is not at hand
    turn,                 \* which of the two curves the object at hand belongs to
    alone,                \* what each of the two curves gave when run alone
    report_call,          \* a value run() is about to report, and how it is written
    report_result,        \* what run() reports for it (<<>>: nothing)
    window,               \* the attributes and widgets of gui.py's Window
    threads,              \* where each XeptoThread is in its run()
    events,               \* the slot calls queued for the GUI thread, oldest first
    exported,             \* the file Window wrote last (<<>>: none)
    solver                \* how scipy's and lmfit's solvers answer (see Solutions)

vars == <<pc, error, inp, df, initial_fit_results, lmfit_params, fit_log,
          model1, model2, lmfit_fitted_model, ic50std_residual, ic50,
          log10dose_fine, fitted_curve_fine, fitted_values, adjusted, interpolated,
          score, drug_results, dss_call, dss_result, fit4pl_call, fit4pl_result,
          pl_call, pl_result, x50_pc, batch, dfs, x50_result, x50_error,
          two_pc, pair, other, turn, alone, report_call, report_result,
          window, threads, events, exported, solver>>

fitVars == <<initial_fit_results, lmfit_params, fit_log, model1, model2,
             lmfit_fitted_model, ic50std_residual, ic50>>

dssVars == <<dss_call, dss_result>>

\* what curve_fits computes after the two fits
curveVars == <<log10dose_fine, fitted_curve_fine, fitted_values, adjusted, interpolated>>

\* what scores() and run() compute
scoreVars == <<score, drug_results>>

xcalVars == <<pc, error, inp, df, fitVars, curveVars, scoreVars>>

fit4plVars == <<fit4pl_call, fit4pl_result>>

plVars == <<pl_call, pl_result>>

x50Vars == <<x50_pc, batch, dfs, x50_result, x50_error>>

\* the callers of XCal(...).run()
twoVars == <<two_pc, pair, other, turn, alone>>

reportVars == <<report_call, report_result>>

windowVars == <<window, threads, events, exported>>

callerVars == <<x50Vars, twoVars, reportVars, windowVars>>

\* what the steps of one XCal object and a call of dss leave alone
restVars == <<fit4plVars, plVars, callerVars, solver>>

\* what the steps of the two fits and of _calculate_ic50 leave alone
laterVars == <<curveVars, scoreVars, dssVars, restVars>>

-----------------------------------------------------------------------------
(* Bounds of the model. *)

\* longest concentration / response array the frame checks enumerate
MaxLen == 3

\* number of points of the grid that stands for np.linspace(..., 10000)
FineGrid == 7

-----------------------------------------------------------------------------
(* Generic helpers. *)

SetMin(S) == CHOOSE x \in S : \A y \in S : x <= y

SetMax(S) == CHOOSE x \in S : \A y \in S : x >= y

Range(s) == {s[i] : i \in 1..Len(s)}

SeqsUpTo(S, n) == UNION {[1..k -> S] : k \in 1..n}

\* np.log10 of a positive integer, in 0.001 decade (exact to the last digit
\* kept for d * 10^k, d a digit)
Log10Digit == <<0, 301, 477, 602, 699, 778, 845, 903, 954>>

RECURSIVE log10(_)
log10(n) == IF n < 10 THEN Log10Digit[n] ELSE 1000 + log10(n \div 10)

-----------------------------------------------------------------------------
(* utils.py: unit_conversion and create_df. *)

valid_units == {"Molar", "Millimolar", "Micromolar", "Nanomolar", "Picomolar"}

\* unit_conversion raises ValueError for a unit outside valid_units
unit_conversion_raises(concentration_unit) == concentration_unit \notin valid_units

\* the factor unit_conversion returns, as its decimal exponent
unit_conversion(concentration_unit) ==
    CASE concentration_unit = "Molar"      -> 0
      [] concentration_unit = "Millimolar" -> -3
      [] concentration_unit = "Micromolar" -> -6
      [] concentration_unit = "Nanomolar"  -> -9
      [] concentration_unit = "Picomolar"  -> -12

\* a faulty length check: only a longer concentration array is refused
create_df_raises_longer(drug_concentrations, inhibition_values) ==
    Len(drug_concentrations) > Len(inhibition_values)

\* create_df raises ValueError when the two arrays differ in length
create_df_raises(drug_concentrations, inhibition_values) ==
    Len(drug_concentrations) # Len(inhibition_values)

\* the frame as built, before sorting: one row per input position;
\* the SEM column is <<>> when no SEM array was given
FrameRows(drug_concentrations, inhibition_values, has_sem, inhibition_sem, conversion_unit) ==
    [i \in 1..Len(drug_concentrations) |->
        [drug_concentration |-> drug_concentrations[i],
         inhibition         |-> inhibition_values[i],
         inhibition_sem     |-> IF has_sem THEN <<inhibition_sem[i]>> ELSE <<>>,
         log10dose          |-> log10(drug_concentrations[i]) + 1000 * conversion_unit]]

RowOrders(n) == {p \in [1..n -> 1..n] : \A i, j \in 1..n : i # j => p[i] # p[j]}

\* a faulty sort: the concentration column alone is reordered
sort_values_column(rows) ==
    {[i \in 1..Len(rows) |->
        [rows[i] EXCEPT !.drug_concentration = rows[p[i]].drug_concentration]] : p \in
        {q \in RowOrders(Len(rows)) :
            \A i, j \in 1..Len(rows) :
                i < j => rows[q[i]].drug_concentration <= rows[q[j]].drug_concentration}}

\* df.sort_values(by='drug_concentration'): whole rows are reordered; the
\* default sort is not stable, so rows of equal concentration land in any order
sort_values(rows) ==
    {[i \in 1..Len(rows) |-> rows[p[i]]] : p \in
        {q \in RowOrders(Len(rows)) :
            \A i, j \in 1..Len(rows) :
                i < j => rows[q[i]].drug_concentration <= rows[q[j]].drug_concentration}}

\* df['inhibition'].duplicated().any()
duplicated_any(rows) ==
    \E i, j \in 1..Len(rows) : i < j /\ rows[i].inhibition = rows[j].inhibition

\* "Handle duplicated inhibition values": 0.01 * (row position) is added to
\* every row when any response value is duplicated
HandleDuplicates(rows) ==
    IF duplicated_any(rows)
    THEN [i \in 1..Len(rows) |-> [rows[i] EXCEPT !.inhibition = @ + 10 * (i - 1)]]
    ELSE rows

\* the frames create_df can return for arrays of equal length
create_df(drug_concentrations, inhibition_values, has_sem, inhibition_sem, conversion_unit) ==
    {HandleDuplicates(s) : s \in
        sort_values(FrameRows(drug_concentrations, inhibition_values,
                              has_sem, inhibition_sem, conversion_unit))}

-----------------------------------------------------------------------------
(* cal.py: the fields XCal._initialize_data derives from the frame. *)

drug_concentrations == [i \in 1..Len(df) |-> df[i].drug_concentration]

inhibition == [i \in 1..Len(df) |-> df[i].inhibition]

log10con == [i \in 1..Len(df) |-> df[i].log10dose]

min_log10dose == SetMin(Range(log10con))

max_log10dose == SetMax(Range(log10con))

max_drug_concentration == SetMax(Range(drug_concentrations))

min_drug_concentration == SetMin(Range(drug_concentrations))

minimum_experimental_inhibition == SetMin(Range(inhibition))

maximum_experimental_inhibition == SetMax(Range(inhibition))

\* self.conversion_unit: a property, recomputed from the unit at every use
conversion_unit == unit_conversion(inp.concentration_unit)

-----------------------------------------------------------------------------
(* The caller's arguments. *)

NoArgs ==
    [drug_concentrations |-> <<>>, inhibition_values |-> <<>>, has_sem |-> FALSE,
     inhibition_sem |-> <<>>, concentration_unit |-> "",
     drug_name |-> "None", cell_line |-> "None", experiment |-> "None",
     set_baseline_for_auc |-> 10000, set_integration_limit |-> 1000,
     report_quality_scores |-> FALSE]

\* XCal(c, r, s, u) with the defaults of the other arguments (cal.py 13-18)
Args(c, r, hs, s, u) ==
    [drug_concentrations |-> c, inhibition_values |-> r, has_sem |-> hs,
     inhibition_sem |-> s, concentration_unit |-> u,
     drug_name |-> "None", cell_line |-> "None", experiment |-> "None",
     set_baseline_for_auc |-> 10000, set_integration_limit |-> 1000,
     report_quality_scores |-> FALSE]

\* the same call with a drug name, a baseline, an integration limit and the flag
WithOptions(a, name, baseline, limit, report) ==
    [a EXCEPT !.drug_name = name, !.set_baseline_for_auc = baseline,
              !.set_integration_limit = limit, !.report_quality_scores = report]

\* the unit strings callers are modelled to pass: the five valid ones and two others
UnitInputs == valid_units \cup {"Femtomolar", "nanomolar"}

\* concentrations and responses the frame checks draw from
FrameConcentrations == {1, 10, 20}

FrameResponses == {0, 10, 20, 50000}

\* SEM given to position i of a frame check: distinct per position
FrameSem(n) == [i \in 1..n |-> 10 * i]

FrameInputs ==
    {Args(c, r, hs, IF hs THEN FrameSem(Len(c)) ELSE <<>>, u) :
        c \in SeqsUpTo(FrameConcentrations, MaxLen),
        r \in SeqsUpTo(FrameResponses, MaxLen),
        hs \in BOOLEAN,
        u \in {"Nanomolar"}}
    \cup
    {Args(<<10, 1>>, r, FALSE, <<>>, u) :
        r \in {<<0, 50000>>, <<10, 20, 30>>}, u \in UnitInputs}

-----------------------------------------------------------------------------
(* cal.py: XCal.__init__. *)

\* the frames one build can return: the order sort_values leaves tied rows in
\* is not specified, but it is a fixed function of the arrays
Frames(all) ==
    IF solver.pick = "any" THEN all ELSE {CHOOSE f \in all : TRUE}

\* XCal(...): _initialize_meta_data stores the unit; _initialize_data first
\* reads self.conversion_unit (unit_conversion may raise), then calls create_df
\* (which may raise); either exception leaves the caller without an object.
XCalInit(inputs) ==
    /\ pc = "new"
    /\ \E a \in inputs :
        /\ inp' = a
        /\ IF \/ unit_conversion_raises(a.concentration_unit)
              \/ create_df_raises(a.drug_concentrations, a.inhibition_values)
           THEN /\ pc' = "error"
                /\ error' = "ValueError"
                /\ df' = df
           ELSE /\ pc' = "constructed"
                /\ error' = error
                /\ df' \in Frames(create_df(a.drug_concentrations, a.inhibition_values,
                                            a.has_sem, a.inhibition_sem,
                                            unit_conversion(a.concentration_unit)))
    /\ UNCHANGED <<fitVars, laterVars>>

-----------------------------------------------------------------------------
(* curve_fitting.py: fit_curve_4pl, the Initial Bounded Fit. *)

Max2(a, b) == IF a >= b THEN a ELSE b

Min2(a, b) == IF a <= b THEN a ELSE b

SeqSum(s) ==
    LET RECURSIVE Sum(_)
        Sum(i) == IF i = 0 THEN 0 ELSE s[i] + Sum(i - 1)
    IN Sum(Len(s))

\* np.median of a sequence (the mean of the two middle values for an even length)
median(s) ==
    LET n == Len(s)
        sorted == CHOOSE t \in [1..n -> Range(s)] :
                     /\ \A i, j \in 1..n : i < j => t[i] <= t[j]
                     /\ \A v \in Range(s) :
                          Cardinality({i \in 1..n : t[i] = v}) =
                          Cardinality({i \in 1..n : s[i] = v})
    IN IF n % 2 = 1 THEN sorted[(n + 1) \div 2]
       ELSE (sorted[n \div 2] + sorted[n \div 2 + 1]) \div 2

\* the box curve_fit searches: [slope, min_val, max_val, log10ic50]
lower_bounds(x, y) == <<0, 0, Min2(SetMax(Range(y)), 95000), SetMin(Range(x))>>

upper_bounds(x, y) == <<4000, Max2(SetMin(Range(y)), 5000), 100000, SetMax(Range(x))>>

\* scipy's curve_fit raises ValueError unless every lower bound is strictly
\* below its upper bound
curve_fit_raises(x, y) ==
    \E k \in 1..4 : lower_bounds(x, y)[k] >= upper_bounds(x, y)[k]

\* The solvers are not modelled. solver.pick = "any": a call may return any
\* point of its box (drawn from the two ends of each interval and the given
\* interior values) and may fail. solver.pick = "lo" / "hi": the solver is a
\* fixed function of its arguments, returning the lower / upper corner of the
\* box, and it fails exactly at call number solver.fail_call (1: curve_fit,
\* 2-4: the calls of lmfit_model.fit) on the curve whose responses are
\* solver.fail_curve.
AnySolver == [pick |-> "any", fail_curve |-> <<>>, fail_call |-> 0]

FixedSolver(pick, fail_curve, fail_call) ==
    [pick |-> pick, fail_curve |-> fail_curve, fail_call |-> fail_call]

\* a faulty version: the answer depends on whether a curve was fitted before
Solutions_warm(all, lo, hi) ==
    IF solver.pick = "any" THEN all
    ELSE IF solver.pick = "lo" /\ dfs = <<>> THEN {lo} ELSE {hi}

Solutions(all, lo, hi) ==
    IF solver.pick = "any" THEN all
    ELSE IF solver.pick = "lo" THEN {lo} ELSE {hi}

SolverFails(call, responses) ==
    IF solver.pick = "any" THEN BOOLEAN
    ELSE {solver.fail_call = call /\ solver.fail_curve = responses}

SolverValues(lo, hi, interior) == {lo, hi} \cup {v \in interior : lo <= v /\ v <= hi}

\* what curve_fit may return: <<slope, min_val, max_val, log10ic50>>
curve_fit(x, y) ==
    {<<s, mn, mx, l>> :
        s \in SolverValues(lower_bounds(x, y)[1], upper_bounds(x, y)[1], {1000}),
        mn \in SolverValues(lower_bounds(x, y)[2], upper_bounds(x, y)[2], {}),
        mx \in SolverValues(lower_bounds(x, y)[3], upper_bounds(x, y)[3], {}),
        l \in SolverValues(lower_bounds(x, y)[4], upper_bounds(x, y)[4], {})}

\* pd.Series(y).rolling(window=3).mean(), as the window's sum; <<>> stands for NaN
running_sum(y) ==
    [i \in 1..Len(y) |-> IF i >= 3 THEN <<y[i - 2] + y[i - 1] + y[i]>> ELSE <<>>]

\* max_inhibition_run after the two moving-average corrections (lines 127-135)
max_inhibition_run(y, max_inhibition_pre) ==
    LET n == Len(y)
        ra == running_sum(y)
        above == {i \in 1..n : ra[i] # <<>> /\ ra[n] # <<>> /\ ra[i][1] > ra[n][1]}
        run1 == IF above # {} THEN SetMax({y[i] : i \in above}) ELSE max_inhibition_pre
        over == {i \in 1..n : y[i] > run1}
    IN IF over # {}
       THEN SeqSum([k \in 1..Cardinality(over) |->
                       y[CHOOSE i \in over : Cardinality({j \in over : j < i}) = k - 1]])
              \div Cardinality(over) + 1000
       ELSE run1

\* min_inhibition (lines 106-111)
fit_min_inhibition(y, min_inhibition_curve_fit) ==
    Min2(Min2(99000, Max2(0, SetMin(Range(y)))),
         Min2(99000, Max2(0, min_inhibition_curve_fit)))

\* max_inhibition_pre (lines 115-121)
fit_max_inhibition_pre(y, max_inhibition_curve_fit) ==
    Max2(Max2(1000, Min2(100000, SetMax(Range(y)))),
         Max2(1000, Min2(100000, max_inhibition_curve_fit)))

\* a faulty version: the corrected value replaces max_inhibition_pre
fit_max_inhibition_post(y, max_inhibition_curve_fit) ==
    LET pre == fit_max_inhibition_pre(y, max_inhibition_curve_fit)
    IN Min2(100000, Max2(1000, max_inhibition_run(y, pre)))

\* max_inhibition (lines 124-140)
fit_max_inhibition(y, max_inhibition_curve_fit) ==
    LET pre == fit_max_inhibition_pre(y, max_inhibition_curve_fit)
        post == Min2(100000, Max2(1000, max_inhibition_run(y, pre)))
    IN Max2(pre, post)

\* a faulty version: the check of the mean of all but the last two responses
\* is left out
fit_log10ic50_no_mean(x, y, min_inhibition, max_inhibition, log10ic50_curve_fit) ==
    LET maxx == SetMax(Range(x))
        minx == SetMin(Range(x))
        l1 == IF min_inhibition >= max_inhibition THEN maxx
              ELSE IF log10ic50_curve_fit > maxx THEN maxx
              ELSE IF log10ic50_curve_fit < minx THEN minx
              ELSE log10ic50_curve_fit
    IN IF SetMax(Range(y)) < 0 THEN maxx
       ELSE IF SetMin(Range(y)) > 100000 THEN minx
       ELSE l1

\* log10ic50_curve_fit after the three groups of checks (lines 143-157)
fit_log10ic50(x, y, min_inhibition, max_inhibition, log10ic50_curve_fit) ==
    LET maxx == SetMax(Range(x))
        minx == SetMin(Range(x))
        l1 == IF min_inhibition >= max_inhibition THEN maxx
              ELSE IF log10ic50_curve_fit > maxx THEN maxx
              ELSE IF log10ic50_curve_fit < minx THEN minx
              ELSE log10ic50_curve_fit
        l2 == IF SetMax(Range(y)) < 0 THEN maxx
              ELSE IF SetMin(Range(y)) > 100000 THEN minx
              ELSE l1
        head == SubSeq(y, 1, Len(y) - 2)
    IN IF Len(head) > 0 /\ SeqSum(head) < 5000 * Len(head) THEN maxx ELSE l2

\* fit_curve_4pl's return value for the solution sol of curve_fit:
\* (min_inhibition, max_inhibition, slope_curve_fit, log10ic50_curve_fit)
fit_curve_4pl(x, y, sol) ==
    LET min_inhibition == fit_min_inhibition(y, sol[2])
        max_inhibition == fit_max_inhibition(y, sol[3])
    IN <<min_inhibition, max_inhibition, sol[1],
         fit_log10ic50(x, y, min_inhibition, max_inhibition, sol[4])>>

-----------------------------------------------------------------------------
(* cal.py: XCal._initial_curve_fit. *)

\* a faulty version: an equal pair is handed on as it is
_initial_curve_fit_equal(fitted) == fitted

\* the unpacking and repacking of fit_curve_4pl's tuple: the third value is
\* bound to the name log10ic50_curve_fit, the fourth to slope_curve_fit
_initial_curve_fit(fitted) ==
    LET min_inhibition == fitted[1]
        max_inhibition == fitted[2]
        log10ic50_curve_fit == fitted[3]
        slope_curve_fit == fitted[4]
    IN <<min_inhibition,
         IF min_inhibition = max_inhibition THEN max_inhibition + 1 ELSE max_inhibition,
         log10ic50_curve_fit, slope_curve_fit>>

\* self.initial_fit_results = self._initial_curve_fit(); curve_fit's own
\* ValueError (a degenerate box) ends run()
InitialCurveFit ==
    /\ pc = "constructed"
    /\ IF curve_fit_raises(log10con, inhibition)
       THEN /\ pc' = "error"
            /\ error' = "ValueError"
            /\ UNCHANGED initial_fit_results
       ELSE \E fails \in SolverFails(1, inp.inhibition_values) :
              IF fails
              THEN /\ pc' = "error"
                   /\ error' = "RuntimeError"
                   /\ UNCHANGED initial_fit_results
              ELSE /\ pc' = "initial_fit"
                   /\ error' = error
                   /\ \E sol \in Solutions(curve_fit(log10con, inhibition),
                                            lower_bounds(log10con, inhibition),
                                            upper_bounds(log10con, inhibition)) :
                        initial_fit_results' =
                            _initial_curve_fit(fit_curve_4pl(log10con, inhibition, sol))
    /\ UNCHANGED <<inp, df, lmfit_params, fit_log, model1, model2,
                   lmfit_fitted_model, ic50std_residual, ic50, laterVars>>

-----------------------------------------------------------------------------
(* curve_fitting.py: fit_lm_4pl, the Refined Fit. *)

\* an lmfit Parameter: the value is clipped into [min, max]
Parameter(value, min, max) ==
    [value |-> Max2(min, Min2(max, value)), min |-> min, max |-> max]

\* lines 202-216: the names curve_fitted_values is unpacked to, and the
\* Parameters built from them
initial_params(x, curve_fitted_values) ==
    LET min_inhibition == curve_fitted_values[1]
        max_inhibition == curve_fitted_values[2]
        initial_log10ic50 == curve_fitted_values[3]
        initial_slope == curve_fitted_values[4]
        min_max_val == Min2(90000, (max_inhibition * 9) \div 10)
        max_min_val == Max2(10000, (min_inhibition * 11) \div 10)
    IN [slope     |-> Parameter(initial_slope, 0, 4000),
        max_val   |-> Parameter(max_inhibition, min_max_val, 100000),
        min_val   |-> Parameter(min_inhibition, 0, max_min_val),
        log10ic50 |-> Parameter(initial_log10ic50, SetMin(Range(x)), SetMax(Range(x)))]

\* line 222: lmfit_params['log10ic50'].value = np.median(log10con)
median_params(params, x) ==
    [params EXCEPT !.log10ic50 = Parameter(median(x), @.min, @.max)]

\* a faulty retry: the slope's lower bound is put below zero
retry_params_negative(params, curve_fitted_values) ==
    LET initial_log10ic50 == curve_fitted_values[3]
    IN [params EXCEPT !.log10ic50 = Parameter(initial_log10ic50, @.min, @.max),
                      !.slope = Parameter(@.value, -100, 2500)]

\* lines 232-234: the low-slope retry's seed and slope bounds
retry_params(params, curve_fitted_values) ==
    LET initial_log10ic50 == curve_fitted_values[3]
    IN [params EXCEPT !.log10ic50 = Parameter(initial_log10ic50, @.min, @.max),
                      !.slope = Parameter(@.value, 100, 2500)]

\* the residual standard deviations a fit is modelled to end with
Residuals == {0, 1000}

\* what lmfit_model.fit may return for params: any point of the box (see
\* SolverValues), tagged with the number of the call that produced it
ModelFit(params, attempt) ==
    {[attempt   |-> attempt,
      slope     |-> s,
      min_val   |-> mn,
      max_val   |-> mx,
      log10ic50 |-> l,
      residual  |-> r] :
        s \in SolverValues(params.slope.min, params.slope.max, {200, 300}),
        mn \in SolverValues(params.min_val.min, params.min_val.max, {}),
        mx \in SolverValues(params.max_val.min, params.max_val.max, {}),
        l \in SolverValues(params.log10ic50.min, params.log10ic50.max, {}),
        r \in Residuals}

\* the corners of the box of params
ModelFitLo(params, attempt) ==
    [attempt |-> attempt, slope |-> params.slope.min, min_val |-> params.min_val.min,
     max_val |-> params.max_val.min, log10ic50 |-> params.log10ic50.min,
     residual |-> SetMin(Residuals)]

ModelFitHi(params, attempt) ==
    [attempt |-> attempt, slope |-> params.slope.max, min_val |-> params.min_val.max,
     max_val |-> params.max_val.max, log10ic50 |-> params.log10ic50.max,
     residual |-> SetMax(Residuals)]

\* lmfit_model.fit(params): the models it may return
lmfit_model_fit(params, attempt) ==
    Solutions(ModelFit(params, attempt), ModelFitLo(params, attempt),
              ModelFitHi(params, attempt))

\* a faulty choice: the first fit also wins a tie
keep_fit_on_tie(m1, m2, ic50std_residual1, ic50std_residual2) ==
    IF ic50std_residual1 <= ic50std_residual2 THEN m1 ELSE m2

\* line 228: which of the two fits is kept
keep_fit(m1, m2, ic50std_residual1, ic50std_residual2) ==
    IF ic50std_residual1 < ic50std_residual2 THEN m1 ELSE m2

\* line 231: whether the kept fit is refitted
low_slope(model) == model.slope <= 200

\* lines 202-216
LmParams ==
    /\ pc = "initial_fit"
    /\ pc' = "lm_params"
    /\ lmfit_params' = initial_params(log10con, initial_fit_results)
    /\ UNCHANGED <<error, inp, df, initial_fit_results, fit_log, model1, model2,
                   lmfit_fitted_model, ic50std_residual, ic50, laterVars>>

\* line 219
LmFit1 ==
    /\ pc = "lm_params"
    /\ fit_log' = Append(fit_log, lmfit_params)
    /\ \E fails \in SolverFails(2, inp.inhibition_values) :
         IF fails
         THEN /\ pc' = "error"
              /\ error' = "FitError"
              /\ UNCHANGED model1
         ELSE /\ pc' = "lm_fit1"
              /\ error' = error
              /\ model1' \in lmfit_model_fit(lmfit_params, 1)
    /\ UNCHANGED <<inp, df, initial_fit_results, lmfit_params, model2,
                   lmfit_fitted_model, ic50std_residual, ic50, laterVars>>

\* lines 222-223
LmFit2 ==
    /\ pc = "lm_fit1"
    /\ lmfit_params' = median_params(lmfit_params, log10con)
    /\ fit_log' = Append(fit_log, lmfit_params')
    /\ \E fails \in SolverFails(3, inp.inhibition_values) :
         IF fails
         THEN /\ pc' = "error"
              /\ error' = "FitError"
              /\ UNCHANGED model2
         ELSE /\ pc' = "lm_fit2"
              /\ error' = error
              /\ model2' \in lmfit_model_fit(lmfit_params', 2)
    /\ UNCHANGED <<inp, df, initial_fit_results, model1,
                   lmfit_fitted_model, ic50std_residual, ic50, laterVars>>

\* lines 226-228; the two models are not read again and are dropped here
LmDecide ==
    /\ pc = "lm_fit2"
    /\ pc' = "lm_kept"
    /\ ic50std_residual' = <<model1.residual, model2.residual>>
    /\ lmfit_fitted_model' = keep_fit(model1, model2, model1.residual, model2.residual)
    /\ model1' = <<>>
    /\ model2' = <<>>
    /\ UNCHANGED <<error, inp, df, initial_fit_results, lmfit_params, fit_log,
                   ic50, laterVars>>

\* lines 231-235
LmRetry ==
    /\ pc = "lm_kept"
    /\ IF low_slope(lmfit_fitted_model)
       THEN /\ lmfit_params' = retry_params(lmfit_params, initial_fit_results)
            /\ fit_log' = Append(fit_log, lmfit_params')
            /\ \E fails \in SolverFails(4, inp.inhibition_values) :
                 IF fails
                 THEN /\ pc' = "error"
                      /\ error' = "FitError"
                      /\ UNCHANGED lmfit_fitted_model
                 ELSE /\ pc' = "lm_final"
                      /\ error' = error
                      /\ lmfit_fitted_model' \in lmfit_model_fit(lmfit_params', 3)
       ELSE /\ pc' = "lm_final"
            /\ UNCHANGED <<error, lmfit_params, fit_log, lmfit_fitted_model>>
    /\ UNCHANGED <<inp, df, initial_fit_results, model1, model2,
                   ic50std_residual, ic50, laterVars>>

\* lines 237-242 and cal.py 144-148: the model becomes self.lmfit_fitted_model,
\* fit_lm_4pl's locals are gone
LmReturn ==
    /\ pc = "lm_final"
    /\ pc' = "lm_done"
    /\ lmfit_params' = <<>>
    /\ ic50std_residual' = <<>>
    /\ UNCHANGED <<error, inp, df, initial_fit_results, fit_log, model1, model2,
                   lmfit_fitted_model, ic50, laterVars>>

\* self.min_val_lm, self.max_val_lm, self.residual
min_val_lm == lmfit_fitted_model.min_val

max_val_lm == lmfit_fitted_model.max_val

residual == lmfit_fitted_model.residual

-----------------------------------------------------------------------------
(* cal.py: XCal._calculate_ic50, one step per statement. *)

\* 10 ** x for x >= 0 in 0.001 decade: the inverse of log10 on d * 10^k
RECURSIVE pow10(_)
pow10(x) ==
    IF x >= 1000 THEN 10 * pow10(x - 1000)
    ELSE CHOOSE d \in 1..9 :
            \A e \in 1..9 :
                Max2(Log10Digit[d] - x, x - Log10Digit[d]) <=
                Max2(Log10Digit[e] - x, x - Log10Digit[e])

\* line 218: (10 ** log10ic50) / conversion_unit
ic50_base(model, unit_exponent) == pow10(model.log10ic50 - 1000 * unit_exponent)

\* lines 220-221
ic50_slope(model, current, min_con, max_con) ==
    IF model.slope < 0 THEN max_con ELSE current

\* a faulty override: the maximum tested concentration is written
ic50_min_val_to_max(model, current, min_con, max_con) ==
    IF model.min_val > 90000 THEN max_con ELSE current

\* lines 222-223
ic50_min_val(model, current, min_con, max_con) ==
    IF model.min_val > 90000 THEN min_con ELSE current

\* a faulty condition: one observed extreme below 10 is enough
ic50_no_response_either(min_exp, max_exp, current, min_con, max_con) ==
    IF Min2(min_exp, max_exp) < 10000 THEN max_con ELSE current

\* lines 225-226
ic50_no_response(min_exp, max_exp, current, min_con, max_con) ==
    IF Max2(min_exp, max_exp) < 10000 THEN max_con ELSE current

\* lines 227-228
ic50_responsive(min_exp, current, min_con, max_con) ==
    IF min_exp > 50000 THEN min_con ELSE current

Ic50Step(from, to, value) ==
    /\ pc = from
    /\ pc' = to
    /\ ic50' = <<value>>
    /\ UNCHANGED <<error, inp, df, initial_fit_results, lmfit_params, fit_log,
                   model1, model2, lmfit_fitted_model, ic50std_residual, laterVars>>

Ic50Base ==
    Ic50Step("interpolated", "ic50_base", ic50_base(lmfit_fitted_model, conversion_unit))

Ic50Slope ==
    Ic50Step("ic50_base", "ic50_slope",
             ic50_slope(lmfit_fitted_model, ic50[1],
                        min_drug_concentration, max_drug_concentration))

Ic50MinVal ==
    Ic50Step("ic50_slope", "ic50_min_val",
             ic50_min_val(lmfit_fitted_model, ic50[1],
                          min_drug_concentration, max_drug_concentration))

Ic50NoResponse ==
    Ic50Step("ic50_min_val", "ic50_no_response",
             ic50_no_response(minimum_experimental_inhibition,
                              maximum_experimental_inhibition, ic50[1],
                              min_drug_concentration, max_drug_concentration))

Ic50Responsive ==
    Ic50Step("ic50_no_response", "ic50_done",
             ic50_responsive(minimum_experimental_inhibition, ic50[1],
                             min_drug_concentration, max_drug_concentration))

-----------------------------------------------------------------------------
(* curve_fitting.py: _4pl; scores.py: dss. *)

\* 10 ** (e / 1000) for e >= 0, cut off at 10^4 (beyond it the logistic term
\* is below the model's resolution)
pow10_capped(e) == pow10(Min2(e, 4000))

\* a faulty version: the exponent has the opposite sign
_4pl_mirrored(log10_drug_con, slope, min_val, max_val, log10ic50) ==
    LET e == (slope * (log10_drug_con - log10ic50)) \div 1000
    IN IF e >= 0
       THEN min_val + (max_val - min_val) \div (1 + pow10_capped(e))
       ELSE min_val + ((max_val - min_val) * pow10_capped(-e)) \div (pow10_capped(-e) + 1)

\* y = min_val + (max_val - min_val) / (1 + 10 ** (slope * (log10ic50 - x)))
_4pl(log10_drug_con, slope, min_val, max_val, log10ic50) ==
    LET e == (slope * (log10ic50 - log10_drug_con)) \div 1000
    IN IF e >= 0
       THEN min_val + (max_val - min_val) \div (1 + pow10_capped(e))
       ELSE min_val + ((max_val - min_val) * pow10_capped(-e)) \div (pow10_capped(-e) + 1)

\* number of panels of the trapezoid rule that stands for scipy's quad
QuadPanels == 4

\* spi.quad(_4pl, x1, x2, args=(slope, min_val, max_val, log10ic50))[0],
\* in 0.001 percent-decade
quad_4pl(x1, x2, slope, min_val, max_val, log10ic50) ==
    LET node(i) == x1 + ((x2 - x1) * i) \div QuadPanels
        f(i) == _4pl(node(i), slope, min_val, max_val, log10ic50)
        RECURSIVE Panels(_)
        Panels(i) ==
            IF i = 0 THEN 0
            ELSE Panels(i - 1) +
                 (((f(i - 1) + f(i)) \div 2) * (node(i) - node(i - 1))) \div 1000
    IN Panels(QuadPanels)

\* IEEE values: a number (in thousandths), NaN, or an infinity
Num(v) == [k |-> "num", v |-> v]

NaN == [k |-> "nan", v |-> 0]

PosInf == [k |-> "inf", v |-> 1]

NegInf == [k |-> "inf", v |-> -1]

isnan(a) == a.k = "nan"

Sign(v) == IF v > 0 THEN 1 ELSE IF v < 0 THEN -1 ELSE 0

\* a < b; every comparison with NaN is false
FLess(a, b) ==
    /\ ~isnan(a) /\ ~isnan(b)
    /\ CASE a.k = "num" /\ b.k = "num" -> a.v < b.v
         [] a.k = "inf" /\ b.k = "num" -> a.v < 0
         [] a.k = "num" /\ b.k = "inf" -> b.v > 0
         [] OTHER -> a.v < b.v

\* a / b of two float64 (numpy: division by zero gives an infinity or NaN, no
\* exception), the quotient kept in thousandths
FDiv(a, b) ==
    CASE isnan(a) \/ isnan(b) -> NaN
      [] a.k = "inf" /\ b.k = "inf" -> NaN
      [] a.k = "inf" -> IF a.v * Sign(b.v) >= 0 THEN PosInf ELSE NegInf
      [] b.k = "inf" -> Num(0)
      [] b.v = 0 -> IF a.v = 0 THEN NaN ELSE IF a.v > 0 THEN PosInf ELSE NegInf
      [] OTHER -> Num((a.v * 1000) \div b.v)

\* a * b, the product kept in thousandths
FMul(a, b) ==
    CASE isnan(a) \/ isnan(b) -> NaN
      [] a.k = "inf" \/ b.k = "inf" ->
            IF Sign(a.v) * Sign(b.v) = 0 THEN NaN
            ELSE IF Sign(a.v) * Sign(b.v) > 0 THEN PosInf ELSE NegInf
      [] OTHER -> Num((a.v * b.v) \div 1000)

\* np.log10(con * con_scale) of a tested concentration
log10_scaled(con, scale_exponent) ==
    CASE isnan(con) -> NaN
      [] con.k = "inf" -> IF con.v > 0 THEN PosInf ELSE NaN
      [] con.v > 0 -> Num(log10(con.v) + 1000 * scale_exponent)
      [] con.v = 0 -> NegInf
      [] OTHER -> NaN

\* round(norm_area, 2) of a value in thousandths
round2(v) == ((v + 5) \div 10) * 10

\* what dss returns
DssNone == [k |-> "None", v |-> 0]

\* lines 295-303: x1, where the curve meets the baseline y, kept within
\* [min_con, x2]; np.log of the negative y - d is NaN and every comparison
\* with it is false
dss_x1(a, b, c, y, min_con, x2) ==
    IF y # 0
    THEN IF y < 0 THEN NaN
         ELSE LET x1 == c - ((log10(a - y) - log10(y)) * 1000) \div b
              IN IF x1 < min_con THEN Num(min_con)
                 ELSE IF x1 > x2 THEN Num(x2)
                 ELSE Num(x1)
    ELSE Num(min_con)

\* lines 308-309: int_y; the curve is integrated with slope, not b
dss_int_y(x1, x2, slope, a, c, y) ==
    IF isnan(x1) THEN NaN
    ELSE Num(quad_4pl(x1.v, x2, slope, 0, a, c) - (y * (x2 - x1.v)) \div 1000)

\* lines 311-321: norm_area of the three variants
dss_norm_area(dss_type, int_y, x1, x2, min_con, a, y) ==
    LET total_area == Num(((x2 - min_con) * (100000 - y)) \div 1000)
        percent == FMul(FDiv(int_y, total_area), Num(100000))
        log10_a == Num(log10(a) - 3000)
        crossed == IF isnan(x1) THEN NaN
                   ELSE FDiv(Num(x2 - x1.v), Num(x2 - min_con))
        area2 == FDiv(percent, log10_a)
    IN CASE dss_type = 1 -> percent
         [] dss_type = 2 -> IF FLess(Num(50000), area2) THEN Num(0) ELSE area2
         [] dss_type = 3 -> FMul(FMul(percent, FDiv(Num(2000), log10_a)), crossed)

\* lines 323-326
dss_clamp(norm_area) ==
    IF FLess(norm_area, Num(0)) \/ FLess(Num(100000), norm_area) THEN Num(0)
    ELSE IF norm_area.k = "num" THEN Num(round2(norm_area.v))
    ELSE norm_area

\* a faulty guard: the maximum tested concentration is not looked at
dss_nan_guard_partial(ic50_, slope, max_val, min_con_tested, max_con_tested, con_scale) ==
    \/ isnan(ic50_) \/ isnan(slope) \/ isnan(max_val)
    \/ isnan(log10_scaled(min_con_tested, con_scale))

\* lines 272-274: the inputs whose NaN makes dss return None
dss_nan_guard(ic50_, slope, max_val, min_con_tested, max_con_tested, con_scale) ==
    \/ isnan(ic50_) \/ isnan(slope) \/ isnan(max_val)
    \/ isnan(log10_scaled(min_con_tested, con_scale))
    \/ isnan(max_con_tested)

\* the guards with the IC50 compared by > in place of >=
dss_zero_guard_above(ic50_, slope, max_con_tested) ==
    \/ FLess(max_con_tested, ic50_)
    \/ slope = Num(0)

\* lines 276-280: the guards that return 0 before a and b are normalised
dss_zero_guard(ic50_, slope, max_con_tested) ==
    \/ ~FLess(ic50_, max_con_tested)
    \/ slope = Num(0)

\* dss(ic50, slope, max_val, min_con_tested, max_con_tested, y, dss_type, con_scale);
\* the first five arguments are IEEE values, y is a number
dss(ic50_, slope, max_val, min_con_tested, max_con_tested, y, dss_type, con_scale) ==
    IF dss_nan_guard(ic50_, slope, max_val, min_con_tested, max_con_tested, con_scale)
    THEN DssNone
    ELSE IF dss_zero_guard(ic50_, slope, max_con_tested) THEN Num(0)
    ELSE LET a == IF FLess(Num(100000), max_val) THEN 100000 ELSE max_val.v
             b == IF slope.v < 0 THEN -slope.v ELSE slope.v
             c == log10(ic50_.v) + 1000 * con_scale
             min_con == log10_scaled(min_con_tested, con_scale).v
             x2 == log10_scaled(max_con_tested, con_scale).v
         IN IF a > y
            THEN LET x1 == dss_x1(a, b, c, y, min_con, x2)
                     int_y == dss_int_y(x1, x2, slope.v, a, c, y)
                 IN dss_clamp(dss_norm_area(dss_type, int_y, x1, x2, min_con, a, y))
            ELSE Num(0)

\* the calls of dss the checks make
DssIc50s == {NaN, PosInf, Num(1), Num(10), Num(1000)}

DssSlopes == {NaN, Num(-1000), Num(0), Num(1000), Num(2500)}

DssMaxVals == {NaN, PosInf, Num(5000), Num(90000), Num(120000)}

DssTested == {<<Num(1), Num(1000)>>, <<Num(100), Num(1000)>>, <<Num(1000), Num(1000)>>,
              <<NaN, Num(1000)>>, <<Num(1), NaN>>, <<Num(-1), Num(1000)>>}

DssBaselines == {-10000, 0, 10000, 100000}

DssCalls ==
    {[ic50 |-> i, slope |-> s, max_val |-> m, min_con_tested |-> t[1],
      max_con_tested |-> t[2], y |-> y, dss_type |-> ty, con_scale |-> -9] :
        i \in DssIc50s, s \in DssSlopes, m \in DssMaxVals, t \in DssTested,
        y \in DssBaselines, ty \in 1..3}

\* one call of dss
DssCall ==
    /\ dss_call = <<>>
    /\ \E call \in DssCalls :
        /\ dss_call' = call
        /\ dss_result' = dss(call.ic50, call.slope, call.max_val, call.min_con_tested,
                             call.max_con_tested, call.y, call.dss_type, call.con_scale)
    /\ UNCHANGED <<xcalVars, restVars>>

-----------------------------------------------------------------------------
(* cal.py: _generate_fine_curves, _adjust_min_max_inhibition and             *)
(* _calculate_interpolated_values.                                           *)

\* np.linspace(lo, hi, FineGrid)
linspace(lo, hi) ==
    [i \in 1..FineGrid |-> lo + ((hi - lo) * (i - 1)) \div (FineGrid - 1)]

\* lmfit_fitted_model.eval(log10_drug_con=xs)
model_eval(model, xs) ==
    [i \in 1..Len(xs) |->
        _4pl(xs[i], model.slope, model.min_val, model.max_val, model.log10ic50)]

\* lines 155-157
GenerateFineCurves ==
    /\ pc = "lm_done"
    /\ pc' = "fine_curves"
    /\ log10dose_fine' = linspace(min_log10dose, max_log10dose)
    /\ fitted_curve_fine' = model_eval(lmfit_fitted_model, log10dose_fine')
    /\ fitted_values' = model_eval(lmfit_fitted_model, log10con)
    /\ UNCHANGED <<error, inp, df, fitVars, adjusted, interpolated, scoreVars,
                   dssVars, restVars>>

\* lines 164-167
adjust_min_max_inhibition(initial, min_val, max_val) ==
    [min_inhibition |-> Max2(0, Min2(initial[1], min_val)),
     max_inhibition |-> Min2(100000, Max2(initial[2], max_val))]

AdjustMinMaxInhibition ==
    /\ pc = "fine_curves"
    /\ pc' = "adjusted"
    /\ adjusted' = adjust_min_max_inhibition(initial_fit_results, min_val_lm, max_val_lm)
    /\ UNCHANGED <<error, inp, df, fitVars, log10dose_fine, fitted_curve_fine,
                   fitted_values, interpolated, scoreVars, dssVars, restVars>>

Abs(v) == IF v < 0 THEN -v ELSE v

\* np.argmin(np.abs(curve - level)): the first index of the smallest distance
argmin_abs(curve, level) ==
    CHOOSE i \in 1..Len(curve) :
        /\ \A j \in 1..Len(curve) : Abs(curve[i] - level) <= Abs(curve[j] - level)
        /\ \A j \in 1..(i - 1) : Abs(curve[j] - level) > Abs(curve[i] - level)

\* ndarray.round(1) of a value in thousandths: to the nearest tenth, halves to
\* the even tenth
round1(v) ==
    LET q == v \div 100
        r == v % 100
    IN IF r < 50 THEN q * 100
       ELSE IF r > 50 THEN (q + 1) * 100
       ELSE IF q % 2 = 0 THEN q * 100 ELSE (q + 1) * 100
\* the if/elif chain with its third condition left out
interpolation_regime_two(range) ==
    IF range.min_inhibition <= 50000 /\ 50000 <= range.max_inhibition THEN "within"
    ELSE IF range.min_inhibition > 50000 THEN "above"
    ELSE "middle"

\* lines 175, 181, 192, 203: which branch of the if/elif/elif/else chain runs
interpolation_regime(range) ==
    IF range.min_inhibition <= 50000 /\ 50000 <= range.max_inhibition THEN "within"
    ELSE IF range.min_inhibition > 50000 THEN "above"
    ELSE IF range.max_inhibition < 50000 THEN "below"
    ELSE "middle"

\* a faulty version: above 50 throughout, the high end of the grid is reported
calculate_interpolated_values_high(range, grid, curve, unit_exponent) ==
    LET dose(i) == pow10(grid[i] - 1000 * unit_exponent)
        at_index(i) == [dose_interpolated |-> dose(i),
                        dose_interpolated_at |-> round1(curve[i])]
        lo == range.min_inhibition
        hi == range.max_inhibition
        regime == interpolation_regime(range)
    IN IF regime = "within" THEN at_index(argmin_abs(curve, 50000))
       ELSE IF regime = "above"
       THEN IF SetMin(Range(curve)) >= 50000
            THEN [dose_interpolated |-> pow10(SetMax(Range(grid)) - 1000 * unit_exponent),
                  dose_interpolated_at |-> round1(SetMin(Range(curve)))]
            ELSE at_index(argmin_abs(curve, 50000))
       ELSE IF regime = "below"
       THEN IF SetMax(Range(curve)) < 50000
            THEN [dose_interpolated |-> pow10(SetMax(Range(grid)) - 1000 * unit_exponent),
                  dose_interpolated_at |-> round1(SetMax(Range(curve)))]
            ELSE at_index(argmin_abs(curve, 50000))
       ELSE at_index(argmin_abs(curve, (lo + hi) \div 2))

\* lines 175-209: dose_interpolated (in the caller's unit) and dose_interpolated_at
calculate_interpolated_values(range, grid, curve, unit_exponent) ==
    LET dose(i) == pow10(grid[i] - 1000 * unit_exponent)
        at_index(i) == [dose_interpolated |-> dose(i),
                        dose_interpolated_at |-> round1(curve[i])]
        lo == range.min_inhibition
        hi == range.max_inhibition
        regime == interpolation_regime(range)
    IN IF regime = "within" THEN at_index(argmin_abs(curve, 50000))
       ELSE IF regime = "above"
       THEN IF SetMin(Range(curve)) >= 50000
            THEN [dose_interpolated |-> pow10(SetMin(Range(grid)) - 1000 * unit_exponent),
                  dose_interpolated_at |-> round1(SetMin(Range(curve)))]
            ELSE at_index(argmin_abs(curve, 50000))
       ELSE IF regime = "below"
       THEN IF SetMax(Range(curve)) < 50000
            THEN [dose_interpolated |-> pow10(SetMax(Range(grid)) - 1000 * unit_exponent),
                  dose_interpolated_at |-> round1(SetMax(Range(curve)))]
            ELSE at_index(argmin_abs(curve, 50000))
       ELSE at_index(argmin_abs(curve, (lo + hi) \div 2))

\* lines 175-210
CalculateInterpolatedValues ==
    /\ pc = "adjusted"
    /\ pc' = "interpolated"
    /\ interpolated' =
         LET v == calculate_interpolated_values(adjusted, log10dose_fine,
                                                fitted_curve_fine, conversion_unit)
         IN [dose_interpolated |-> v.dose_interpolated,
             dose_interpolated_at |-> v.dose_interpolated_at,
             log10_dose_interpolated |->
                 log10(v.dose_interpolated) + 1000 * conversion_unit]
    /\ UNCHANGED <<error, inp, df, fitVars, log10dose_fine, fitted_curve_fine,
                   fitted_values, adjusted, scoreVars, dssVars, restVars>>

-----------------------------------------------------------------------------
(* scores.py: cal_auc_aac, xepto_score, quality_scores; cal.py: scores, run. *)

\* lines 59-69: auc, the integral of (fitted - baseline) over the tested range
cal_auc(model, set_baseline_for_auc, doses) ==
    LET lo == SetMin(Range(doses))
        hi == SetMax(Range(doses))
    IN round2(quad_4pl(lo, hi, model.slope, model.min_val, model.max_val, model.log10ic50)
              - (set_baseline_for_auc * (hi - lo)) \div 1000)

\* round(100 * a / b, 2) of two float64, kept in hundredths; halves go to the
\* even hundredth; b = 0 gives an infinity or NaN
percent_ratio(a, b) ==
    IF b = 0 THEN IF a = 0 THEN NaN ELSE IF a > 0 THEN PosInf ELSE NegInf
    ELSE LET n == Abs(a) * 10000
             d == Abs(b)
             q == n \div d
             r == n % d
             up == 2 * r > d \/ (2 * r = d /\ q % 2 = 1)
             m == IF up THEN q + 1 ELSE q
         IN Num(Sign(a) * Sign(b) * m)

\* a faulty version: the configured baseline is subtracted inside the integral
xepto_score_baseline(model, from, baseline_for_auc, max_value, integration_limit) ==
    LET integral == quad_4pl(from, from + integration_limit, model.slope,
                             model.min_val, model.max_val, model.log10ic50)
                    - (baseline_for_auc * integration_limit) \div 1000
        area_of_interest ==
            ((max_value - baseline_for_auc) * integration_limit) \div 1000
    IN percent_ratio(integral, area_of_interest)

\* lines 119-130; the result is kept in hundredths
xepto_score(model, from, baseline_for_auc, max_value, integration_limit) ==
    LET integral == quad_4pl(from, from + integration_limit, model.slope,
                             model.min_val, model.max_val, model.log10ic50)
                    - (50000 * integration_limit) \div 1000
        area_of_interest ==
            ((max_value - baseline_for_auc) * integration_limit) \div 1000
    IN percent_ratio(integral, area_of_interest)

\* the integer square root
RECURSIVE Bisect(_, _, _)
Bisect(lo, hi, n) ==
    IF lo >= hi THEN lo
    ELSE LET mid == (lo + hi + 1) \div 2
         IN IF mid * mid <= n THEN Bisect(mid, hi, n) ELSE Bisect(lo, mid - 1, n)

isqrt(n) == Bisect(0, 40000, n)

\* lines 170-171, 174: with two or fewer points n - k - 1 or n - 2 is zero
\* and shapiro has too few values
quality_scores_raises(original_values) == Len(original_values) <= 2

\* lines 168-205: the nine scores, in hundredths, from responses kept to 0.1;
\* p is scipy's and is not computed
quality_scores(original_values, fitted) ==
    LET n == Len(original_values)
        y(i) == original_values[i] \div 100
        f(i) == fitted[i] \div 100
        e(i) == y(i) - f(i)
        RECURSIVE Sum(_, _)
        Sum(g(_), i) == IF i = 0 THEN 0 ELSE g(i) + Sum(g, i - 1)
        mean_f == Sum(f, n) \div n
        mean_y == Sum(y, n) \div n
        mean_e == Sum(e, n) \div n
        sq_e(i) == e(i) * e(i)
        abs_e(i) == Abs(e(i))
        dev_f(i) == (f(i) - mean_f) * (f(i) - mean_f)
        dev_y(i) == (y(i) - mean_y) * (y(i) - mean_y)
        dev_e(i) == (e(i) - mean_e) * (e(i) - mean_e)
        ape(i) == (abs_e(i) * 100) \div Max2(Abs(y(i)), 1)
        ratio(num, den) ==
            IF den = 0 THEN IF num = 0 THEN 100 ELSE 0
            ELSE 100 - (num * 100) \div den
        r2 == ratio(Sum(sq_e, n), Sum(dev_f, n))
    IN [r2   |-> r2,
        ar2  |-> 100 - ((100 - r2) * (n - 1)) \div (n - 2),
        syx  |-> isqrt((Sum(sq_e, n) * 100) \div (n - 2)),
        rmse |-> isqrt((Sum(sq_e, n) * 100) \div n),
        p    |-> "p",
        evar |-> ratio(Sum(dev_e, n), Sum(dev_y, n)),
        merr |-> 10 * SetMax({abs_e(i) : i \in 1..n}),
        rmae |-> isqrt((Sum(abs_e, n) * 1000) \div n),
        mape |-> Sum(ape, n) \div n]

\* cal.py 255-268
_calculate_dss(dss_type) ==
    dss(Num(ic50[1]), Num(lmfit_fitted_model.slope), Num(max_val_lm),
        Num(min_drug_concentration), Num(max_drug_concentration),
        inp.set_baseline_for_auc, dss_type, conversion_unit)

\* scores() with the quality scores computed only when they are to be reported
Scores_when_reported ==
    /\ pc = "ic50_done"
    /\ IF inp.report_quality_scores /\ quality_scores_raises(inhibition)
       THEN /\ pc' = "error"
            /\ error' \in {"ZeroDivisionError", "ValueError"}
            /\ score' = score
       ELSE /\ pc' = "scored"
            /\ error' = error
            /\ score' =
                 [auc     |-> cal_auc(lmfit_fitted_model, inp.set_baseline_for_auc, log10con),
                  xepto50 |-> xepto_score(lmfit_fitted_model,
                                          interpolated.log10_dose_interpolated,
                                          inp.set_baseline_for_auc,
                                          adjusted.max_inhibition,
                                          inp.set_integration_limit),
                  qs      |-> IF inp.report_quality_scores
                              THEN quality_scores(inhibition, fitted_values)
                              ELSE <<>>,
                  dss1    |-> _calculate_dss(1),
                  dss2    |-> _calculate_dss(2),
                  dss3    |-> _calculate_dss(3)]
    /\ UNCHANGED <<inp, df, fitVars, curveVars, drug_results, dssVars, restVars>>

\* cal.py 231-252: scores(); an exception of quality_scores ends run()
Scores ==
    /\ pc = "ic50_done"
    /\ IF quality_scores_raises(inhibition)
       THEN /\ pc' = "error"
            /\ error' \in {"ZeroDivisionError", "ValueError"}
            /\ score' = score
       ELSE /\ pc' = "scored"
            /\ error' = error
            /\ score' =
                 [auc     |-> cal_auc(lmfit_fitted_model, inp.set_baseline_for_auc, log10con),
                  xepto50 |-> xepto_score(lmfit_fitted_model,
                                          interpolated.log10_dose_interpolated,
                                          inp.set_baseline_for_auc,
                                          adjusted.max_inhibition,
                                          inp.set_integration_limit),
                  qs      |-> quality_scores(inhibition, fitted_values),
                  dss1    |-> _calculate_dss(1),
                  dss2    |-> _calculate_dss(2),
                  dss3    |-> _calculate_dss(3)]
    /\ UNCHANGED <<inp, df, fitVars, curveVars, drug_results, dssVars, restVars>>

\* dict.update
update(a, b) ==
    [k \in DOMAIN a \cup DOMAIN b |-> IF k \in DOMAIN b THEN b[k] ELSE a[k]]

CoreFields ==
    {"Experiment", "Cell line", "Drug name", "IC50", "IC interpolated",
     "IC interpolated at", "AUC", "DSS1", "DSS2", "DSS3", "Xepto50"}

QualityFields ==
    {"R2", "Adjusted R2", "RMSE", "Normality Test (p)", "Sy.x", "Explained variance",
     "Maximum residual error", "Mean absolute error", "Mean abs percentage error"}

AdditionalFields ==
    {"Minimum drug concentration", "Maximum drug concentration",
     "Number of concentration", "Concentration unit",
     "Minimum experimental inhibition", "Minimum fitted inhibition",
     "Maximum experimental inhibition", "Maximum fitted inhibition", "Slope",
     "IC50 std error", "IC50 std residual"} \cup QualityFields

\* a faulty version: the nine quality scores are left out of the block
additional_fields_short ==
    [k \in AdditionalFields \ QualityFields |->
        CASE k = "Minimum drug concentration" -> min_drug_concentration
          [] k = "Maximum drug concentration" -> max_drug_concentration
          [] k = "Number of concentration" -> Len(drug_concentrations)
          [] k = "Concentration unit" -> inp.concentration_unit
          [] k = "Minimum experimental inhibition" -> round2(minimum_experimental_inhibition)
          [] k = "Minimum fitted inhibition" -> round2(lmfit_fitted_model.min_val)
          [] k = "Maximum experimental inhibition" -> round2(maximum_experimental_inhibition)
          [] k = "Maximum fitted inhibition" -> round2(max_val_lm)
          [] k = "Slope" -> round2(lmfit_fitted_model.slope)
          [] k = "IC50 std error" -> "stderr"
          [] k = "IC50 std residual" -> residual]

\* cal.py 325-346; the standard error lmfit reports is not computed
additional_fields ==
    [k \in AdditionalFields |->
        CASE k = "Minimum drug concentration" -> min_drug_concentration
          [] k = "Maximum drug concentration" -> max_drug_concentration
          [] k = "Number of concentration" -> Len(drug_concentrations)
          [] k = "Concentration unit" -> inp.concentration_unit
          [] k = "Minimum experimental inhibition" -> round2(minimum_experimental_inhibition)
          [] k = "Minimum fitted inhibition" -> round2(lmfit_fitted_model.min_val)
          [] k = "Maximum experimental inhibition" -> round2(maximum_experimental_inhibition)
          [] k = "Maximum fitted inhibition" -> round2(max_val_lm)
          [] k = "Slope" -> round2(lmfit_fitted_model.slope)
          [] k = "IC50 std error" -> "stderr"
          [] k = "IC50 std residual" -> residual
          [] k = "R2" -> score.qs.r2
          [] k = "Adjusted R2" -> score.qs.ar2
          [] k = "RMSE" -> score.qs.rmse
          [] k = "Normality Test (p)" -> score.qs.p
          [] k = "Sy.x" -> score.qs.syx
          [] k = "Explained variance" -> score.qs.evar
          [] k = "Maximum residual error" -> score.qs.merr
          [] k = "Mean absolute error" -> score.qs.rmae
          [] k = "Mean abs percentage error" -> score.qs.mape]

\* numpy's round(places) of a whole number counting 10^-written: the
\* nearest multiple of 10^-places; a value half way between two of them goes
\* to the one its binary representation is nearer to
ndarray_round(v, places, written) ==
    IF written <= places THEN {v}
    ELSE LET step == 10 ^ (written - places)
             down == (v \div step) * step
             rest == v - down
         IN  IF 2 * rest < step THEN {down}
             ELSE IF 2 * rest > step THEN {down + step}
             ELSE {down, down + step}

\* cal.py 309-321; the pipeline's concentrations are written without decimals
core_fields ==
    [k \in CoreFields |->
        CASE k = "Experiment" -> inp.experiment
          [] k = "Cell line" -> inp.cell_line
          [] k = "Drug name" -> inp.drug_name
          [] k = "IC50" -> CHOOSE r \in ndarray_round(ic50[1], 3, 0) : TRUE
          [] k = "IC interpolated" -> interpolated.dose_interpolated
          [] k = "IC interpolated at" -> interpolated.dose_interpolated_at
          [] k = "AUC" -> score.auc
          [] k = "DSS1" -> score.dss1
          [] k = "DSS2" -> score.dss2
          [] k = "DSS3" -> score.dss3
          [] k = "Xepto50" -> score.xepto50]

\* cal.py 305-349: the plot is drawn (the figure is not modelled), then the
\* dictionary is built and returned
RunReturn ==
    /\ pc = "scored"
    /\ pc' = "returned"
    /\ drug_results' = IF inp.report_quality_scores
                       THEN update(core_fields, additional_fields)
                       ELSE core_fields
    /\ UNCHANGED <<error, inp, df, fitVars, curveVars, score, dssVars, restVars>>

-----------------------------------------------------------------------------
(* fit_curve_4pl and _4pl called on their own. *)

\* the log10 doses and the responses fit_curve_4pl is called with
Fit4plDoses ==
    {<<-9000, -6000>>, <<-9000, -8000, -7000>>, <<-9000, -8000, -7000, -6000>>}

Fit4plResponses == {-5000, 2000, 50000, 101000}

\* one call of fit_curve_4pl, with the solution curve_fit came back with
Fit4plCall ==
    /\ fit4pl_call = <<>>
    /\ \E x \in Fit4plDoses :
         \E y \in [1..Len(x) -> Fit4plResponses] :
            /\ ~curve_fit_raises(x, y)
            /\ \E sol \in curve_fit(x, y) :
                 /\ fit4pl_call' = [log10con |-> x, inhibition |-> y, sol |-> sol]
                 /\ fit4pl_result' = fit_curve_4pl(x, y, sol)
    /\ UNCHANGED <<xcalVars, dssVars, plVars, callerVars, solver>>

\* the arguments _4pl is evaluated with: parameter sets inside the boxes of
\* fit_lm_4pl, among them sets with min_val above max_val
PlDoses == {-9000, -8000, -7500, -7000, -6000}

PlSlopes == {0, 200, 1000, 4000}

PlMinVals == {0, 10000, 60000}

PlMaxVals == {3600, 46800, 90000, 100000}

PlLog10ic50s == {-9000, -7500, -6000}

\* _4pl evaluated at two doses with the same parameters
PlCall ==
    /\ pl_call = <<>>
    /\ \E x1 \in PlDoses, x2 \in PlDoses, s \in PlSlopes, mn \in PlMinVals,
          mx \in PlMaxVals, l \in PlLog10ic50s :
         /\ pl_call' = [x1 |-> x1, x2 |-> x2, slope |-> s, min_val |-> mn,
                        max_val |-> mx, log10ic50 |-> l]
         /\ pl_result' = <<_4pl(x1, s, mn, mx, l), _4pl(x2, s, mn, mx, l)>>
    /\ UNCHANGED <<xcalVars, dssVars, fit4plVars, callerVars, solver>>

-----------------------------------------------------------------------------
(* The curves the pipeline checks run on. *)

PipelineConcentrations == <<1, 10, 100, 1000>>

PipelineResponses ==
    {<<2000, 30000, 70000, 95000>>,     \* a sigmoid
     <<1000, 2000, 3000, 4000>>,        \* no response: everything below 10
     <<85000, 90000, 96000, 98000>>,    \* saturated at the lowest dose
     <<60000, 70000, 80000, 90000>>,    \* above 50 at the lowest dose
     <<10000, 90000, 80000, 20000>>,    \* not monotone
     <<10000, 10000, 10000, 10000>>,    \* flat, all values tied
     <<95000, 96000, 97000, 99000>>,    \* everything above 90
     <<0, 200, 500, 1000>>,             \* everything at or below 1
     <<51000, 52000, 53000, 54000>>,    \* just above 50 throughout
     <<47000, 48000, 48500, 49000>>}    \* just below 50 throughout

\* calls with a drug name, another baseline and window, and the quality block
OptionInputs ==
    {WithOptions(Args(PipelineConcentrations, <<2000, 30000, 70000, 95000>>,
                      FALSE, <<>>, "Nanomolar"), "drug", 20000, 500, TRUE),
     WithOptions(Args(PipelineConcentrations, <<60000, 70000, 80000, 90000>>,
                      FALSE, <<>>, "Nanomolar"), "drug", 0, 1000, TRUE),
     WithOptions(Args(PipelineConcentrations, <<1000, 2000, 3000, 4000>>,
                      FALSE, <<>>, "Nanomolar"), "drug", 50000, 1000, FALSE)}

PipelineInputs ==
    {Args(PipelineConcentrations, r, FALSE, <<>>, "Nanomolar") : r \in PipelineResponses}
    \cup
    OptionInputs
    \cup
    {Args(<<1, 10, 100>>, <<2000, 30000, 70000, 95000>>, FALSE, <<>>, "Nanomolar"),
     Args(PipelineConcentrations, <<2000, 30000, 70000, 95000>>, FALSE, <<>>, "Nanomole"),
     Args(<<10, 10>>, <<2000, 30000>>, FALSE, <<>>, "Nanomolar"),
     Args(<<100, 1, 10>>, <<95000, 2000, 50000>>, TRUE, <<30, 10, 20>>, "Micromolar"),
     Args(<<1, 10>>, <<2000, 95000>>, FALSE, <<>>, "Molar"),
     Args(<<1, 10>>, <<2000, 95000>>, FALSE, <<>>, "Millimolar"),
     Args(<<1, 10>>, <<2000, 95000>>, FALSE, <<>>, "Picomolar")}

-----------------------------------------------------------------------------
(* run.py: the loop of x50, which runs XCal(...).run() once per curve. *)

\* the attributes of the XCal object at hand
Instance ==
    [pc |-> pc, error |-> error, inp |-> inp, df |-> df,
     initial_fit_results |-> initial_fit_results, lmfit_params |-> lmfit_params,
     fit_log |-> fit_log, model1 |-> model1, model2 |-> model2,
     lmfit_fitted_model |-> lmfit_fitted_model, ic50std_residual |-> ic50std_residual,
     ic50 |-> ic50, log10dose_fine |-> log10dose_fine,
     fitted_curve_fine |-> fitted_curve_fine, fitted_values |-> fitted_values,
     adjusted |-> adjusted, interpolated |-> interpolated, score |-> score,
     drug_results |-> drug_results]

\* an object not yet constructed
NewInstance ==
    [pc |-> "new", error |-> "", inp |-> NoArgs, df |-> <<>>,
     initial_fit_results |-> <<>>, lmfit_params |-> <<>>,
     fit_log |-> <<>>, model1 |-> <<>>, model2 |-> <<>>,
     lmfit_fitted_model |-> <<>>, ic50std_residual |-> <<>>,
     ic50 |-> <<>>, log10dose_fine |-> <<>>,
     fitted_curve_fine |-> <<>>, fitted_values |-> <<>>,
     adjusted |-> <<>>, interpolated |-> <<>>, score |-> <<>>,
     drug_results |-> <<>>]

\* a faulty version: ic50 is one value for all objects
Load_shared_ic50(i) ==
    /\ pc' = i.pc
    /\ error' = i.error
    /\ inp' = i.inp
    /\ df' = i.df
    /\ initial_fit_results' = i.initial_fit_results
    /\ lmfit_params' = i.lmfit_params
    /\ fit_log' = i.fit_log
    /\ model1' = i.model1
    /\ model2' = i.model2
    /\ lmfit_fitted_model' = i.lmfit_fitted_model
    /\ ic50std_residual' = i.ic50std_residual
    /\ ic50' = ic50
    /\ log10dose_fine' = i.log10dose_fine
    /\ fitted_curve_fine' = i.fitted_curve_fine
    /\ fitted_values' = i.fitted_values
    /\ adjusted' = i.adjusted
    /\ interpolated' = i.interpolated
    /\ score' = i.score
    /\ drug_results' = i.drug_results

\* the steps that follow act on the object i
Load(i) ==
    /\ pc' = i.pc
    /\ error' = i.error
    /\ inp' = i.inp
    /\ df' = i.df
    /\ initial_fit_results' = i.initial_fit_results
    /\ lmfit_params' = i.lmfit_params
    /\ fit_log' = i.fit_log
    /\ model1' = i.model1
    /\ model2' = i.model2
    /\ lmfit_fitted_model' = i.lmfit_fitted_model
    /\ ic50std_residual' = i.ic50std_residual
    /\ ic50' = i.ic50
    /\ log10dose_fine' = i.log10dose_fine
    /\ fitted_curve_fine' = i.fitted_curve_fine
    /\ fitted_values' = i.fitted_values
    /\ adjusted' = i.adjusted
    /\ interpolated' = i.interpolated
    /\ score' = i.score
    /\ drug_results' = i.drug_results

\* the curves of the batches
BatchCurves ==
    {Args(PipelineConcentrations, <<2000, 30000, 70000, 95000>>, FALSE, <<>>, "Nanomolar"),
     Args(PipelineConcentrations, <<60000, 70000, 80000, 90000>>, FALSE, <<>>, "Nanomolar"),
     Args(<<1, 10, 10, 100>>, <<1000, 2000, 3000, 4000>>, FALSE, <<>>, "Nanomolar"),
     Args(<<1, 10, 100>>, <<2000, 30000, 70000, 95000>>, FALSE, <<>>, "Nanomolar")}

\* longest batch
MaxBatch == 2

Batches == {<<>>} \cup SeqsUpTo(BatchCurves, MaxBatch)

\* the solvers of one build: a corner of the box, and at most one failing call
FixedSolvers ==
    {FixedSolver(pick, <<>>, 0) : pick \in {"lo", "hi"}}
    \cup
    {FixedSolver(pick, c.inhibition_values, call) :
        pick \in {"lo", "hi"}, c \in BatchCurves, call \in 1..4}

\* a caller starts on a batch
X50Call ==
    /\ x50_pc = "idle"
    /\ pc = "new"
    /\ x50_pc' = "loop"
    /\ batch' \in Batches
    /\ solver' \in FixedSolvers
    /\ UNCHANGED <<xcalVars, dssVars, fit4plVars, plVars, reportVars, windowVars,
                   twoVars, dfs, x50_result,
                   x50_error>>

\* lines 119-129: XCal(...) for the next curve
X50Construct ==
    /\ x50_pc = "loop"
    /\ Len(dfs) < Len(batch)
    /\ XCalInit({batch[Len(dfs) + 1]})

\* lines 130-131: run() returned; the dictionary is appended and the object dropped
X50Append ==
    /\ x50_pc = "loop"
    /\ pc = "returned"
    /\ dfs' = Append(dfs, drug_results)
    /\ Load(NewInstance)
    /\ UNCHANGED <<x50_pc, batch, x50_result, x50_error, dssVars, fit4plVars, plVars, reportVars, windowVars,
                   twoVars, solver>>

\* a faulty version: the exception is swallowed and the list so far is returned
X50Raise_swallowed ==
    /\ x50_pc = "loop"
    /\ pc = "error"
    /\ x50_pc' = "returned"
    /\ x50_error' = error
    /\ x50_result' = dfs
    /\ UNCHANGED <<xcalVars, batch, dfs, dssVars, fit4plVars, plVars, reportVars, windowVars,
                   twoVars, solver>>

\* XCal(...) or run() raised: nothing in x50 catches it
X50Raise ==
    /\ x50_pc = "loop"
    /\ pc = "error"
    /\ x50_pc' = "raised"
    /\ x50_error' = error
    /\ dfs' = <<>>
    /\ UNCHANGED <<xcalVars, batch, x50_result, dssVars, fit4plVars, plVars, reportVars, windowVars,
                   twoVars, solver>>

\* lines 149-158: pd.concat raises ValueError on an empty list
X50Return ==
    /\ x50_pc = "loop"
    /\ pc = "new"
    /\ Len(dfs) = Len(batch)
    /\ IF dfs = <<>>
       THEN /\ x50_pc' = "raised"
            /\ x50_error' = "ValueError"
            /\ x50_result' = x50_result
       ELSE /\ x50_pc' = "returned"
            /\ x50_error' = x50_error
            /\ x50_result' = dfs
    /\ UNCHANGED <<xcalVars, batch, dfs, dssVars, fit4plVars, plVars, reportVars, windowVars,
                   twoVars, solver>>

-----------------------------------------------------------------------------
(* Two XCal objects whose steps interleave. Each curve is first run alone,  *)
(* then the two are run side by side.                                       *)

\* how run() of an object ended
Outcome(i) == [error |-> i.error, record |-> i.drug_results]

Ended(i) == i.pc \in {"returned", "error"}

SameOutcome(a, b) ==
    /\ a.error = b.error
    /\ a.error = "" => a.record = b.record

\* a caller takes two curves
TwoCall ==
    /\ two_pc = "idle"
    /\ x50_pc = "idle"
    /\ pc = "new"
    /\ two_pc' = "alone"
    /\ pair' \in BatchCurves \X BatchCurves
    /\ solver' \in FixedSolvers
    /\ UNCHANGED <<xcalVars, dssVars, fit4plVars, plVars, reportVars, windowVars,
                   x50Vars, other, turn, alone>>

\* XCal(...) for the curve whose turn it is
TwoConstruct ==
    /\ two_pc \in {"alone", "together"}
    /\ XCalInit({pair[turn]})

\* a run alone has ended; after the second one the two objects start afresh
TwoAloneEnd ==
    /\ two_pc = "alone"
    /\ Ended(Instance)
    /\ alone' = Append(alone, Outcome(Instance))
    /\ Load(NewInstance)
    /\ IF turn = 1
       THEN /\ turn' = 2
            /\ UNCHANGED <<two_pc, other>>
       ELSE /\ turn' = 1
            /\ two_pc' = "together"
            /\ other' = NewInstance
    /\ UNCHANGED <<pair, dssVars, fit4plVars, plVars, reportVars, windowVars,
                   x50Vars, solver>>

\* the next step is taken by the other object
Switch ==
    /\ two_pc = "together"
    /\ Load(other)
    /\ other' = Instance
    /\ turn' = 3 - turn
    /\ UNCHANGED <<two_pc, pair, alone, dssVars, fit4plVars, plVars, reportVars, windowVars,
                   x50Vars, solver>>

-----------------------------------------------------------------------------
(* The value run() reports.                                                *)
(* Here a concentration is a whole number counting 10^-written of the      *)
(* caller's unit: written is the number of decimals it is written with.    *)

\* most decimals a concentration is written with
MaxWritten == 4

\* the leading digits of the concentrations
ReportDigits == {1, 4, 5, 9}

\* tested concentrations: a leading digit and a power of ten
ReportDoses == {d * 10 ^ k : d \in ReportDigits, k \in 0..3}

\* 'IC50': self.ic50.round(3), for an IC50 inside the tested range
ReportIc50 ==
    /\ report_call = <<>>
    /\ \E written \in 0..MaxWritten, lo \in ReportDoses, hi \in ReportDoses :
         /\ lo < hi
         /\ \E v \in {lo, hi} \cup {d \in ReportDoses : lo < d /\ d < hi} :
              /\ report_call' = [ic50 |-> v, written |-> written,
                                 min_drug_concentration |-> lo,
                                 max_drug_concentration |-> hi]
              /\ report_result' \in {<<r>> : r \in ndarray_round(v, 3, written)}
    /\ UNCHANGED <<xcalVars, dssVars, fit4plVars, plVars, x50Vars, twoVars,
                   windowVars, solver>>

-----------------------------------------------------------------------------
(* gui.py: the window, its worker threads and the queued slot calls.       *)
(* A processing run is numbered by the order in which process() started    *)
(* it; a result or a plots object is named by the run that computed it,    *)
(* 0 standing for an attribute that was never assigned.                    *)

\* most processing runs one window starts
MaxRuns == 3

Runs == 1..MaxRuns

\* gui.py 55-395: Window.__init__ assigns neither file_name, thread, result
\* nor plots
NewWindow ==
    [file_name |-> "unset", status_label |-> "Status: Ready",
     process_button |-> TRUE, thread |-> 0, result |-> 0, plots |-> 0,
     unhandled |-> ""]

\* QThread.isRunning(): run() was entered and has not returned
isRunning(t) == threads[t] \in {"started", "computed", "emitted_result"}

\* the run is in progress: started, and its result not yet delivered
InProgress(t) ==
    \/ threads[t] \in {"started", "computed"}
    \/ \E i \in 1..Len(events) : events[i] = <<"result", t>>

\* gui.py 397-404
load_xlsx ==
    /\ \E name \in {"", "data.xlsx"} : window' = [window EXCEPT !.file_name = name]
    /\ UNCHANGED <<threads, events, exported>>

\* gui.py 406-436: read_excel raises on the empty name a cancelled dialog
\* leaves; otherwise a new XeptoThread takes the place of self.thread and is
\* started
process ==
    IF window.file_name = "unset"
    THEN UNCHANGED <<window, threads, events, exported>>
    ELSE IF window.file_name = ""
    THEN /\ window' = [window EXCEPT !.unhandled = "FileNotFoundError"]
         /\ UNCHANGED <<threads, events, exported>>
    ELSE /\ \E t \in Runs :
              /\ threads[t] = "unborn"
              /\ \A u \in Runs : u < t => threads[u] # "unborn"
              /\ window' = [window EXCEPT !.status_label = "Running...",
                                          !.process_button = FALSE,
                                          !.thread = t]
              /\ threads' = [threads EXCEPT ![t] = "started"]
         /\ UNCHANGED <<events, exported>>

\* gui.py 346-347: the Compute button, which a click reaches only when enabled
ProcessButton ==
    /\ window.process_button
    /\ process
    /\ UNCHANGED <<xcalVars, dssVars, fit4plVars, plVars, x50Vars, twoVars,
                   reportVars, solver>>

\* gui.py 73-75: the menu's Xepto action
ProcessAction ==
    /\ process
    /\ UNCHANGED <<xcalVars, dssVars, fit4plVars, plVars, x50Vars, twoVars,
                   reportVars, solver>>

\* gui.py 69-71 and 142: the menu's Load action and the Load data button
LoadXlsx ==
    /\ load_xlsx
    /\ UNCHANGED <<xcalVars, dssVars, fit4plVars, plVars, x50Vars, twoVars,
                   reportVars, solver>>

\* gui.py 42-50: x50 returns, or raises what one of its curves raised
ThreadCompute ==
    /\ \E t \in Runs :
         /\ threads[t] = "started"
         /\ \E outcome \in {"computed", "raised"} :
              threads' = [threads EXCEPT ![t] = outcome]
    /\ UNCHANGED <<window, events, exported>>
    /\ UNCHANGED <<xcalVars, dssVars, fit4plVars, plVars, x50Vars, twoVars,
                   reportVars, solver>>

\* gui.py 51: the signal is emitted in the worker, its slot belongs to the
\* window, so the call is queued for the GUI thread
ThreadEmitResult ==
    /\ \E t \in Runs :
         /\ threads[t] = "computed"
         /\ threads' = [threads EXCEPT ![t] = "emitted_result"]
         /\ events' = Append(events, <<"result", t>>)
    /\ UNCHANGED <<window, exported>>
    /\ UNCHANGED <<xcalVars, dssVars, fit4plVars, plVars, x50Vars, twoVars,
                   reportVars, solver>>

\* gui.py 52, after which run() returns
ThreadEmitPlots ==
    /\ \E t \in Runs :
         /\ threads[t] = "emitted_result"
         /\ threads' = [threads EXCEPT ![t] = "finished"]
         /\ events' = Append(events, <<"plots", t>>)
    /\ UNCHANGED <<window, exported>>
    /\ UNCHANGED <<xcalVars, dssVars, fit4plVars, plVars, x50Vars, twoVars,
                   reportVars, solver>>

\* gui.py 438-441
process_finished_result(result) ==
    window' = [window EXCEPT !.status_label = "Completed - Ready to export results",
                             !.process_button = TRUE,
                             !.result = result]

\* gui.py 443-446
process_finished_plots(plots) ==
    window' = [window EXCEPT !.plots = plots]

\* the event loop runs the oldest queued slot call
Deliver ==
    /\ events # <<>>
    /\ IF Head(events)[1] = "result"
       THEN process_finished_result(Head(events)[2])
       ELSE process_finished_plots(Head(events)[2])
    /\ events' = Tail(events)
    /\ UNCHANGED <<threads, exported>>
    /\ UNCHANGED <<xcalVars, dssVars, fit4plVars, plVars, x50Vars, twoVars,
                   reportVars, solver>>

\* gui.py 448-460: with a path chosen the held result is written
export_xlsx ==
    IF window.result # 0
    THEN \/ /\ exported' = [kind |-> "xlsx", result |-> window.result, plots |-> 0]
            /\ UNCHANGED <<window, threads, events>>
         \/ UNCHANGED <<window, threads, events, exported>>
    ELSE UNCHANGED <<window, threads, events, exported>>

ExportXlsx ==
    /\ export_xlsx
    /\ UNCHANGED <<xcalVars, dssVars, fit4plVars, plVars, x50Vars, twoVars,
                   reportVars, solver>>

\* gui.py 462-475: the guard asks for self.result; with a path chosen
\* self.plots is read, which raises when it was never assigned, and its bytes
\* are written
export_plots ==
    IF window.result # 0
    THEN \/ IF window.plots = 0
            THEN /\ window' = [window EXCEPT !.unhandled = "AttributeError"]
                 /\ UNCHANGED <<threads, events, exported>>
            ELSE /\ exported' = [kind |-> "pdf", result |-> window.result,
                                 plots |-> window.plots]
                 /\ UNCHANGED <<window, threads, events>>
         \/ UNCHANGED <<window, threads, events, exported>>
    ELSE UNCHANGED <<window, threads, events, exported>>

ExportPlots ==
    /\ export_plots
    /\ UNCHANGED <<xcalVars, dssVars, fit4plVars, plVars, x50Vars, twoVars,
                   reportVars, solver>>


-----------------------------------------------------------------------------
(* Specifications. *)

Init ==
    /\ pc = "new"
    /\ error = ""
    /\ inp = NoArgs
    /\ df = <<>>
    /\ initial_fit_results = <<>>
    /\ lmfit_params = <<>>
    /\ fit_log = <<>>
    /\ model1 = <<>>
    /\ model2 = <<>>
    /\ lmfit_fitted_model = <<>>
    /\ ic50std_residual = <<>>
    /\ ic50 = <<>>
    /\ log10dose_fine = <<>>
    /\ fitted_curve_fine = <<>>
    /\ fitted_values = <<>>
    /\ adjusted = <<>>
    /\ interpolated = <<>>
    /\ score = <<>>
    /\ drug_results = <<>>
    /\ dss_call = <<>>
    /\ dss_result = DssNone
    /\ fit4pl_call = <<>>
    /\ fit4pl_result = <<>>
    /\ pl_call = <<>>
    /\ pl_result = <<>>
    /\ x50_pc = "idle"
    /\ batch = <<>>
    /\ dfs = <<>>
    /\ x50_result = <<>>
    /\ x50_error = ""
    /\ two_pc = "idle"
    /\ pair = <<>>
    /\ other = <<>>
    /\ turn = 1
    /\ alone = <<>>
    /\ report_call = <<>>
    /\ report_result = <<>>
    /\ window = NewWindow
    /\ threads = [t \in Runs |-> "unborn"]
    /\ events = <<>>
    /\ exported = <<>>
    /\ solver = AnySolver

\* construction alone, over every pair of arrays up to MaxLen
NextFrame == XCalInit(FrameInputs)

SpecFrame == Init /\ [][NextFrame]_vars

\* dss called on its own
NextDss == DssCall

SpecDss == Init /\ [][NextDss]_vars

\* fit_curve_4pl called on its own
NextFit4pl == Fit4plCall

SpecFit4pl == Init /\ [][NextFit4pl]_vars

\* _4pl called on its own
NextPl == PlCall

SpecPl == Init /\ [][NextPl]_vars

\* XCal(...).run() on the pipeline curves
Next ==
    \/ XCalInit(PipelineInputs)
    \/ InitialCurveFit
    \/ LmParams
    \/ LmFit1
    \/ LmFit2
    \/ LmDecide
    \/ LmRetry
    \/ LmReturn
    \/ GenerateFineCurves
    \/ AdjustMinMaxInhibition
    \/ CalculateInterpolatedValues
    \/ Ic50Base
    \/ Ic50Slope
    \/ Ic50MinVal
    \/ Ic50NoResponse
    \/ Ic50Responsive
    \/ Scores
    \/ RunReturn

Spec == Init /\ [][Next]_vars

\* a caller running the curves of a batch one after another, as x50 does
NextX50 ==
    \/ X50Call
    \/ X50Construct
    \/ InitialCurveFit
    \/ LmParams
    \/ LmFit1
    \/ LmFit2
    \/ LmDecide
    \/ LmRetry
    \/ LmReturn
    \/ GenerateFineCurves
    \/ AdjustMinMaxInhibition
    \/ CalculateInterpolatedValues
    \/ Ic50Base
    \/ Ic50Slope
    \/ Ic50MinVal
    \/ Ic50NoResponse
    \/ Ic50Responsive
    \/ Scores
    \/ RunReturn
    \/ X50Append
    \/ X50Raise
    \/ X50Return

SpecX50 == Init /\ [][NextX50]_vars

\* two curves run alone and then side by side
NextTwo ==
    \/ TwoCall
    \/ TwoConstruct
    \/ InitialCurveFit
    \/ LmParams
    \/ LmFit1
    \/ LmFit2
    \/ LmDecide
    \/ LmRetry
    \/ LmReturn
    \/ GenerateFineCurves
    \/ AdjustMinMaxInhibition
    \/ CalculateInterpolatedValues
    \/ Ic50Base
    \/ Ic50Slope
    \/ Ic50MinVal
    \/ Ic50NoResponse
    \/ Ic50Responsive
    \/ Scores
    \/ RunReturn
    \/ TwoAloneEnd
    \/ Switch

SpecTwo == Init /\ [][NextTwo]_vars

\* run() reporting an IC50
NextReport == ReportIc50

SpecReport == Init /\ [][NextReport]_vars

\* the window: what the user does, the worker threads, the event loop
NextWindow ==
    \/ LoadXlsx
    \/ ProcessButton
    \/ ProcessAction
    \/ ThreadCompute
    \/ ThreadEmitResult
    \/ ThreadEmitPlots
    \/ Deliver
    \/ ExportXlsx
    \/ ExportPlots

SpecWindow == Init /\ [][NextWindow]_vars

\* a started thread runs on and the event loop keeps running queued slot
\* calls; nothing makes the user act
SpecWindowFair ==
    /\ Init
    /\ [][NextWindow]_vars
    /\ WF_vars(ThreadCompute)
    /\ WF_vars(ThreadEmitResult)
    /\ WF_vars(ThreadEmitPlots)
    /\ WF_vars(Deliver)

-----------------------------------------------------------------------------
(* Properties. *)

\* C1: construction fails with ValueError whenever the two arrays differ in
\* length or the unit is not one of the five valid units, and then no frame,
\* no fit and no IC50 exist; for the five valid units the factor is 1, 1e-3,
\* 1e-6, 1e-9, 1e-12 (seen in every row's log10dose).
C1_InvalidInputFailsBeforeFit ==
    /\ ( /\ pc # "new"
         /\ \/ Len(inp.drug_concentrations) # Len(inp.inhibition_values)
            \/ inp.concentration_unit \notin
                 {"Molar", "Millimolar", "Micromolar", "Nanomolar", "Picomolar"} )
       => /\ pc = "error"
          /\ error = "ValueError"
          /\ df = <<>>
          /\ initial_fit_results = <<>>
          /\ fit_log = <<>>
          /\ lmfit_fitted_model = <<>>
          /\ ic50 = <<>>
    /\ \A i \in 1..Len(df) :
         LET factor == df[i].log10dose - log10(df[i].drug_concentration)
         IN /\ inp.concentration_unit = "Molar" => factor = 0
            /\ inp.concentration_unit = "Millimolar" => factor = -3000
            /\ inp.concentration_unit = "Micromolar" => factor = -6000
            /\ inp.concentration_unit = "Nanomolar" => factor = -9000
            /\ inp.concentration_unit = "Picomolar" => factor = -12000

C1_Witness ==
    /\ pc = "error"
    /\ error = "ValueError"
    /\ Len(inp.drug_concentrations) < Len(inp.inhibition_values)
    /\ inp.concentration_unit = "Nanomolar"
    /\ df = <<>>

\* C2: the first refined fit is seeded with the slope and the log10_IC50 the
\* Initial Bounded Fit returned (the third and fourth value of fit_curve_4pl's
\* tuple), each under its own name.
C2_SeedsKeepFieldSemantics ==
    Len(fit_log) >= 1 =>
        /\ fit_log[1].slope.value = initial_fit_results[3]
        /\ fit_log[1].log10ic50.value = initial_fit_results[4]

\* C3 as stated: once the min_val > 90 override has run, and as long as no
\* later override condition applies, the IC50 is the maximum tested
\* concentration.
C3_MinValOverrideToMax ==
    ( /\ pc \in {"ic50_min_val", "ic50_no_response", "ic50_done"}
      /\ lmfit_fitted_model.min_val > 90000
      /\ \/ pc = "ic50_min_val"
         \/ /\ ~(Max2(minimum_experimental_inhibition,
                       maximum_experimental_inhibition) < 10000)
            /\ ~(minimum_experimental_inhibition > 50000) )
    => ic50 = <<max_drug_concentration>>

\* C3 amended: under the same conditions the IC50 is the minimum tested
\* concentration.
C3_MinValOverrideToMin ==
    ( /\ pc \in {"ic50_min_val", "ic50_no_response", "ic50_done"}
      /\ lmfit_fitted_model.min_val > 90000
      /\ \/ pc = "ic50_min_val"
         \/ ~(Max2(minimum_experimental_inhibition,
                   maximum_experimental_inhibition) < 10000) )
    => ic50 = <<min_drug_concentration>>

C3_Witness ==
    /\ pc = "ic50_min_val"
    /\ lmfit_fitted_model.min_val > 90000
    /\ pow10(lmfit_fitted_model.log10ic50 - 1000 * conversion_unit) = max_drug_concentration
    /\ min_drug_concentration < max_drug_concentration
    /\ ic50 = <<min_drug_concentration>>

\* C4: when _calculate_ic50 is through, the last override condition that holds
\* has decided the IC50: the minimum tested concentration whenever the minimum
\* observed inhibition is > 50, the maximum tested concentration whenever both
\* observed extremes are < 10, and 10^log10_IC50 in the caller's unit when no
\* condition holds.
C4_LastOverrideWins ==
    pc = "ic50_done" =>
        LET slope_negative == lmfit_fitted_model.slope < 0
            saturated == lmfit_fitted_model.min_val > 90000
            no_response == /\ minimum_experimental_inhibition < 10000
                           /\ maximum_experimental_inhibition < 10000
            responsive == minimum_experimental_inhibition > 50000
        IN /\ responsive => ic50 = <<min_drug_concentration>>
           /\ no_response => ic50 = <<max_drug_concentration>>
           /\ ~(slope_negative \/ saturated \/ no_response \/ responsive) =>
                ic50 = <<pow10(lmfit_fitted_model.log10ic50 - 1000 * conversion_unit)>>

C4_Witness ==
    /\ pc = "ic50_done"
    /\ maximum_experimental_inhibition < 10000
    /\ pow10(lmfit_fitted_model.log10ic50 - 1000 * conversion_unit) = min_drug_concentration
    /\ min_drug_concentration < max_drug_concentration
    /\ ic50 = <<max_drug_concentration>>

\* C5: dss returns None, 0 or a value in [0, 100], never NaN and never a
\* negative value, for every combination of inputs.
C5_DssInRange ==
    dss_call # <<>> =>
        \/ dss_result = DssNone
        \/ dss_result.k = "num" /\ dss_result.v >= 0 /\ dss_result.v <= 100000

\* C6 as stated: dss returns None if one of its five required inputs is not
\* finite, and otherwise 0 if IC50 >= max tested concentration, slope = 0 or
\* max_val <= y.
C6_NonFiniteGivesNone ==
    dss_call # <<>> =>
        IF \E f \in {dss_call.ic50, dss_call.slope, dss_call.max_val,
                     dss_call.min_con_tested, dss_call.max_con_tested} : f.k # "num"
        THEN dss_result = DssNone
        ELSE ( \/ dss_call.ic50.v >= dss_call.max_con_tested.v
               \/ dss_call.slope.v = 0
               \/ dss_call.max_val.v <= dss_call.y )
             => dss_result = Num(0)

\* C6 amended: dss returns None if one of its five required inputs is NaN or
\* the minimum tested concentration is negative (its log10 is NaN); otherwise,
\* infinite inputs included, it returns 0 if IC50 >= max tested concentration,
\* slope = 0 or max_val <= y.
C6_NaNGivesNone ==
    dss_call # <<>> =>
        IF \/ \E f \in {dss_call.ic50, dss_call.slope, dss_call.max_val,
                        dss_call.min_con_tested, dss_call.max_con_tested} : f.k = "nan"
           \/ dss_call.min_con_tested.k = "num" /\ dss_call.min_con_tested.v < 0
        THEN dss_result = DssNone
        ELSE ( \/ dss_call.ic50 = PosInf
               \/ dss_call.ic50.k = "num" /\ dss_call.ic50.v >= dss_call.max_con_tested.v
               \/ dss_call.slope = Num(0)
               \/ dss_call.max_val.k = "num" /\ dss_call.max_val.v <= dss_call.y )
             => dss_result = Num(0)

C6_Witness ==
    /\ dss_call # <<>>
    /\ dss_call.max_con_tested = NaN
    /\ dss_call.ic50 = Num(1)
    /\ dss_call.slope = Num(1000)
    /\ dss_call.max_val = Num(90000)
    /\ dss_call.min_con_tested = Num(1)
    /\ dss_result = DssNone

\* C7: after create_df no two rows of the frame share a response value.
C7_ResponsesDistinct ==
    pc = "constructed" =>
        \A i, j \in 1..Len(df) : i # j => df[i].inhibition # df[j].inhibition

\* C8 as stated: the frame is sorted ascending by concentration, each row
\* holds the response and SEM supplied at the input position of its
\* concentration, and its log10dose is log10(concentration x unit factor).
C8_RowsKeepSuppliedValues ==
    pc = "constructed" =>
        /\ \A i, j \in 1..Len(df) :
             i < j => df[i].drug_concentration <= df[j].drug_concentration
        /\ Len(df) = Len(inp.drug_concentrations)
        /\ \E p \in RowOrders(Len(df)) :
             \A i \in 1..Len(df) :
                /\ df[i].drug_concentration = inp.drug_concentrations[p[i]]
                /\ df[i].inhibition = inp.inhibition_values[p[i]]
                /\ df[i].inhibition_sem =
                     IF inp.has_sem THEN <<inp.inhibition_sem[p[i]]>> ELSE <<>>
        /\ \A i \in 1..Len(df) :
             df[i].log10dose =
                log10(df[i].drug_concentration) +
                ( CASE inp.concentration_unit = "Molar" -> 0
                    [] inp.concentration_unit = "Millimolar" -> -3000
                    [] inp.concentration_unit = "Micromolar" -> -6000
                    [] inp.concentration_unit = "Nanomolar" -> -9000
                    [] inp.concentration_unit = "Picomolar" -> -12000 )

\* C8 amended: as stated, except that when the response array holds a
\* duplicated value the response of the row at position i (from 0) of the
\* sorted frame is the supplied one plus 0.01 x i.
C8_RowsKeepSuppliedValuesUpToOffset ==
    pc = "constructed" =>
        /\ \A i, j \in 1..Len(df) :
             i < j => df[i].drug_concentration <= df[j].drug_concentration
        /\ Len(df) = Len(inp.drug_concentrations)
        /\ \E p \in RowOrders(Len(df)) :
             \A i \in 1..Len(df) :
                /\ df[i].drug_concentration = inp.drug_concentrations[p[i]]
                /\ df[i].inhibition =
                     inp.inhibition_values[p[i]] +
                     ( IF \E a, b \in 1..Len(df) :
                            a # b /\ inp.inhibition_values[a] = inp.inhibition_values[b]
                       THEN 10 * (i - 1) ELSE 0 )
                /\ df[i].inhibition_sem =
                     IF inp.has_sem THEN <<inp.inhibition_sem[p[i]]>> ELSE <<>>
        /\ \A i \in 1..Len(df) :
             df[i].log10dose =
                log10(df[i].drug_concentration) +
                ( CASE inp.concentration_unit = "Molar" -> 0
                    [] inp.concentration_unit = "Millimolar" -> -3000
                    [] inp.concentration_unit = "Micromolar" -> -6000
                    [] inp.concentration_unit = "Nanomolar" -> -9000
                    [] inp.concentration_unit = "Picomolar" -> -12000 )

C8_Witness ==
    /\ pc = "constructed"
    /\ inp.drug_concentrations = <<20, 1, 10>>
    /\ inp.inhibition_values = <<50000, 0, 0>>
    /\ inp.has_sem
    /\ df[1].inhibition = 0 /\ df[2].inhibition = 10 /\ df[3].inhibition = 50020
    /\ df[3].inhibition_sem = <<10>>

\* C9: when fit_lm_4pl has made its last fit it has made two or three; a
\* third one was made with slope bounds [0.1, 2.5] and log10ic50 seeded at the
\* Initial Fit's log10_IC50, and its result is the final model; without a third
\* one the final model is one of the first two and its slope is above 0.2.
C9_RetryStateMachine ==
    pc \in {"lm_final", "lm_done"} =>
        /\ Len(fit_log) \in {2, 3}
        /\ Len(fit_log) = 3 =>
             /\ fit_log[3].slope.min = 100
             /\ fit_log[3].slope.max = 2500
             /\ fit_log[3].log10ic50.value = initial_fit_results[4]
             /\ lmfit_fitted_model.attempt = 3
        /\ Len(fit_log) = 2 =>
             /\ lmfit_fitted_model.attempt \in {1, 2}
             /\ lmfit_fitted_model.slope > 200

\* C10: of the two refined fits the one with the lower residual standard
\* deviation is kept, the second (median seeded) one when they are equal.
C10_KeepsLowerResidual ==
    [][pc = "lm_fit2" =>
         /\ model2.attempt = 2
         /\ fit_log[2].log10ic50.value = median(log10con)
         /\ lmfit_fitted_model' =
              IF model1.residual < model2.residual THEN model1
              ELSE IF model2.residual < model1.residual THEN model2
              ELSE model2]_vars

C10_Witness ==
    /\ pc = "lm_kept"
    /\ ic50std_residual[1] = ic50std_residual[2]
    /\ lmfit_fitted_model.attempt = 2

\* C20: the log10_IC50 fit_curve_4pl returns lies in [min(log10con),
\* max(log10con)]; it is max(log10con) whenever min_inhibition >=
\* max_inhibition, or all responses are < 0, or the mean of all but the last
\* two responses is < 5, and min(log10con) whenever all responses are > 100.
C20_InitialLog10ic50 ==
    fit4pl_call # <<>> =>
        LET x == fit4pl_call.log10con
            y == fit4pl_call.inhibition
            n == Len(y)
            l == fit4pl_result[4]
            head == SubSeq(y, 1, n - 2)
        IN /\ SetMin(Range(x)) <= l /\ l <= SetMax(Range(x))
           /\ ( \/ fit4pl_result[1] >= fit4pl_result[2]
                \/ \A i \in 1..n : y[i] < 0
                \/ n > 2 /\ SeqSum(head) < 5000 * (n - 2) )
              => l = SetMax(Range(x))
           /\ (\A i \in 1..n : y[i] > 100000) => l = SetMin(Range(x))

C20_Witness ==
    /\ fit4pl_call # <<>>
    /\ fit4pl_call.inhibition = <<2000, 2000, 50000, 101000>>
    /\ fit4pl_call.sol[4] = -9000
    /\ fit4pl_result[1] < fit4pl_result[2]
    /\ fit4pl_result[4] = -6000

\* C13 as stated: for slope >= 0 the value of _4pl does not decrease when the
\* dose grows, whatever min_val and max_val are, and lies between them.
C13_MonotoneForAnyMinMax ==
    (pl_call # <<>> /\ pl_call.slope >= 0) =>
        /\ pl_call.x1 <= pl_call.x2 => pl_result[1] <= pl_result[2]
        /\ \A k \in 1..2 :
             /\ Min2(pl_call.min_val, pl_call.max_val) <= pl_result[k]
             /\ pl_result[k] <= Max2(pl_call.min_val, pl_call.max_val)

\* C13 amended: for slope >= 0 the value of _4pl does not decrease with the
\* dose when min_val <= max_val and does not increase with it when min_val >
\* max_val; it always lies between min_val and max_val.
C13_MonotoneTowardsMaxVal ==
    (pl_call # <<>> /\ pl_call.slope >= 0) =>
        /\ (pl_call.x1 <= pl_call.x2 /\ pl_call.min_val <= pl_call.max_val)
              => pl_result[1] <= pl_result[2]
        /\ (pl_call.x1 <= pl_call.x2 /\ pl_call.min_val > pl_call.max_val)
              => pl_result[1] >= pl_result[2]
        /\ \A k \in 1..2 :
             /\ Min2(pl_call.min_val, pl_call.max_val) <= pl_result[k]
             /\ pl_result[k] <= Max2(pl_call.min_val, pl_call.max_val)

C13_Witness ==
    /\ pl_call # <<>>
    /\ pl_call.slope = 1000
    /\ pl_call.min_val = 10000 /\ pl_call.max_val = 3600
    /\ pl_call.x1 < pl_call.x2
    /\ pl_result[1] > pl_result[2]

\* C11: once fit_lm_4pl has returned, the final model has min_val in [0, 99]
\* and max_val in [1, 100].
C11_FinalMinMaxInRange ==
    pc \in {"lm_final", "lm_done"} =>
        /\ 0 <= lmfit_fitted_model.min_val /\ lmfit_fitted_model.min_val <= 99000
        /\ 1000 <= lmfit_fitted_model.max_val /\ lmfit_fitted_model.max_val <= 100000

\* C12: once fit_lm_4pl has returned, the final model has log10ic50 in
\* [min(log10con), max(log10con)] and slope in [0, 4], in [0.1, 2.5] when it
\* comes from the low-slope retry; the slope < 0 statement of _calculate_ic50
\* leaves the IC50 at 10^log10ic50 in the caller's unit.
C12_FinalSlopeAndLog10ic50InBox ==
    /\ pc \in {"lm_final", "lm_done", "fine_curves", "adjusted", "interpolated",
               "ic50_base", "ic50_slope"} =>
         /\ min_log10dose <= lmfit_fitted_model.log10ic50
         /\ lmfit_fitted_model.log10ic50 <= max_log10dose
         /\ 0 <= lmfit_fitted_model.slope /\ lmfit_fitted_model.slope <= 4000
         /\ lmfit_fitted_model.attempt = 3 =>
              /\ 100 <= lmfit_fitted_model.slope
              /\ lmfit_fitted_model.slope <= 2500
    /\ pc = "ic50_slope" =>
         ic50 = <<pow10(lmfit_fitted_model.log10ic50 - 1000 * conversion_unit)>>

C12_Witness ==
    /\ pc = "ic50_slope"
    /\ lmfit_fitted_model.attempt = 3
    /\ lmfit_fitted_model.slope = 100
    /\ lmfit_fitted_model.log10ic50 = max_log10dose
    /\ ic50 = <<max_drug_concentration>>
    /\ min_drug_concentration < max_drug_concentration

-----------------------------------------------------------------------------
(* C19 *)

\* the dose of grid point i in the caller's unit
GridDose(i) == pow10(log10dose_fine[i] - 1000 * conversion_unit)

\* the grid point nearest 50 is reported, with the fitted response there
ReportsNearest50 ==
    \E i \in 1..FineGrid :
        /\ \A j \in 1..FineGrid :
               Abs(fitted_curve_fine[i] - 50000) <= Abs(fitted_curve_fine[j] - 50000)
        /\ interpolated.dose_interpolated = GridDose(i)
        /\ interpolated.dose_interpolated_at = round1(fitted_curve_fine[i])

\* C19: the regime of the dose at 50 % follows the adjusted range. A range
\* that holds 50 reports the grid point nearest 50. A range above 50 reports
\* the low end of the grid with the smallest fitted value when no fitted value
\* is below 50, else the grid point nearest 50. A range below 50 reports the
\* high end of the grid with the largest fitted value when every fitted value
\* is below 50, else the grid point nearest 50.
C19_DoseAt50Regimes ==
    interpolated # <<>> =>
        LET lo == adjusted.min_inhibition
            hi == adjusted.max_inhibition
            fitted == Range(fitted_curve_fine)
        IN /\ (lo <= 50000 /\ 50000 <= hi) => ReportsNearest50
           /\ lo > 50000 =>
                IF \A v \in fitted : v >= 50000
                THEN /\ interpolated.dose_interpolated = GridDose(1)
                     /\ interpolated.dose_interpolated_at = round1(SetMin(fitted))
                ELSE ReportsNearest50
           /\ hi < 50000 =>
                IF \A v \in fitted : v < 50000
                THEN /\ interpolated.dose_interpolated = GridDose(FineGrid)
                     /\ interpolated.dose_interpolated_at = round1(SetMax(fitted))
                ELSE ReportsNearest50

\* a curve above 50 throughout has been resolved to the lowest tested dose
C19_Witness ==
    /\ interpolated # <<>>
    /\ adjusted.min_inhibition > 50000
    /\ \A v \in Range(fitted_curve_fine) : v >= 50000
    /\ interpolated.dose_interpolated = min_drug_concentration
    /\ min_drug_concentration < max_drug_concentration

-----------------------------------------------------------------------------
(* C18 *)

\* C18: the Xepto score is 100 times the integral of (fitted - 50) over
\* [interpolated log10 dose, interpolated log10 dose + integration limit],
\* divided by (max_inhibition - baseline) times the integration limit and
\* rounded to 2 decimals, where max_inhibition is the maximum of the initial
\* and the refined fit's maxima, at most 100; the level inside the integral
\* is 50 whatever the baseline is.
C18_XeptoScore ==
    score # <<>> =>
        LET m == lmfit_fitted_model
            from == interpolated.log10_dose_interpolated
            limit == inp.set_integration_limit
            integral == quad_4pl(from, from + limit, m.slope, m.min_val, m.max_val,
                                 m.log10ic50) - (50000 * limit) \div 1000
            highest == Min2(100000, Max2(initial_fit_results[2], m.max_val))
            normaliser == ((highest - inp.set_baseline_for_auc) * limit) \div 1000
        IN score.xepto50 = percent_ratio(integral, normaliser)

\* a curve scored with a baseline of 20 and a window of half a decade
C18_Witness ==
    /\ score # <<>>
    /\ inp.set_baseline_for_auc = 20000
    /\ inp.set_integration_limit = 500
    /\ score.xepto50.k = "num"
    /\ score.xepto50.v > 0

-----------------------------------------------------------------------------
(* C14 *)

\* C14: the dictionary run() returns has exactly the eleven core fields when
\* report_quality_scores is false; when it is true it has those and the
\* diagnostics block, which holds the nine quality scores.
C14_ResultRecordFields ==
    pc = "returned" =>
        IF inp.report_quality_scores
        THEN /\ CoreFields \subseteq DOMAIN drug_results
             /\ DOMAIN drug_results # CoreFields
             /\ {"R2", "Adjusted R2", "Sy.x", "RMSE", "Normality Test (p)",
                 "Explained variance", "Maximum residual error",
                 "Mean absolute error", "Mean abs percentage error"}
                    \subseteq DOMAIN drug_results
             /\ drug_results["R2"] = score.qs.r2
             /\ drug_results["Adjusted R2"] = score.qs.ar2
             /\ drug_results["Sy.x"] = score.qs.syx
             /\ drug_results["RMSE"] = score.qs.rmse
             /\ drug_results["Normality Test (p)"] = score.qs.p
             /\ drug_results["Explained variance"] = score.qs.evar
             /\ drug_results["Maximum residual error"] = score.qs.merr
             /\ drug_results["Mean absolute error"] = score.qs.rmae
             /\ drug_results["Mean abs percentage error"] = score.qs.mape
        ELSE /\ DOMAIN drug_results =
                    {"Experiment", "Cell line", "Drug name", "IC50", "IC interpolated",
                     "IC interpolated at", "AUC", "DSS1", "DSS2", "DSS3", "Xepto50"}
             /\ Cardinality(DOMAIN drug_results) = 11

\* a run with the flag set has returned a record of thirty-one fields
C14_Witness ==
    /\ pc = "returned"
    /\ inp.report_quality_scores
    /\ Cardinality(DOMAIN drug_results) = 31
    /\ drug_results["Drug name"] = "drug"

-----------------------------------------------------------------------------
(* C16 *)

SolverErrors == {"RuntimeError", "FitError"}

-----------------------------------------------------------------------------
(* C15 *)

-----------------------------------------------------------------------------
(* C17 *)

-----------------------------------------------------------------------------
(* C21 *)

Clamp(lo, hi, v) == Max2(lo, Min2(hi, v))

\* C21: fit_curve_4pl returns as minimum the smaller of the observed and the
\* fitted minimum, each brought into [0, 99], and as maximum a value of
\* [1, 100] that is at least the larger of the observed and the fitted
\* maximum, each brought into [1, 100], and that exceeds it by no more than
\* up to one above the largest observed response brought into [1, 100].
C21_InitialMinMax ==
    fit4pl_call # <<>> =>
        LET y == Range(fit4pl_call.inhibition)
            sol == fit4pl_call.sol
            floor_max == Max2(Clamp(1000, 100000, SetMax(y)), Clamp(1000, 100000, sol[3]))
        IN /\ fit4pl_result[1] = Min2(Clamp(0, 99000, SetMin(y)), Clamp(0, 99000, sol[2]))
           /\ 0 <= fit4pl_result[1] /\ fit4pl_result[1] <= 99000
           /\ 1000 <= fit4pl_result[2] /\ fit4pl_result[2] <= 100000
           /\ fit4pl_result[2] >= floor_max
           /\ fit4pl_result[2] <= Max2(floor_max, Clamp(1000, 100000, SetMax(y) + 1000))

\* the moving-average correction has raised the maximum above the observed
\* and the fitted maximum
C21_Witness ==
    /\ fit4pl_call # <<>>
    /\ fit4pl_call.inhibition = <<50000, 2000, 2000, -5000>>
    /\ fit4pl_call.sol[3] = 50000
    /\ fit4pl_result[2] = 51000

-----------------------------------------------------------------------------
(* C22 *)

\* C22: fit_curve_4pl never returns a minimum above its maximum, and the
\* pair _initial_curve_fit hands on has its minimum strictly below its
\* maximum: an equal pair has its maximum raised by 0.001.
C22_MinBelowMaxHandedOn ==
    fit4pl_call # <<>> =>
        LET handed == _initial_curve_fit(fit4pl_result)
        IN /\ fit4pl_result[1] <= fit4pl_result[2]
           /\ handed[1] < handed[2]
           /\ handed[1] = fit4pl_result[1]
           /\ fit4pl_result[1] = fit4pl_result[2] => handed[2] = fit4pl_result[2] + 1
           /\ fit4pl_result[1] < fit4pl_result[2] => handed[2] = fit4pl_result[2]

\* a flat series at 50 came back with minimum and maximum both 50
C22_Witness ==
    /\ fit4pl_call # <<>>
    /\ fit4pl_call.inhibition = <<50000, 50000, 50000>>
    /\ fit4pl_result[1] = 50000
    /\ fit4pl_result[2] = 50000
    /\ _initial_curve_fit(fit4pl_result)[2] = 50001

-----------------------------------------------------------------------------
(* C23 *)

\* C23: when no guard of dss applies, the call returns what the same call
\* with the slope's sign reversed returns, for each of the three variants.
C23_SlopeSignIgnored ==
    ( /\ dss_call # <<>>
      /\ dss_call.slope.k = "num"
      /\ dss_call.slope.v # 0
      /\ ~dss_nan_guard(dss_call.ic50, dss_call.slope, dss_call.max_val,
                        dss_call.min_con_tested, dss_call.max_con_tested,
                        dss_call.con_scale)
      /\ ~dss_zero_guard(dss_call.ic50, dss_call.slope, dss_call.max_con_tested) )
    => dss_result = dss(dss_call.ic50, Num(-dss_call.slope.v), dss_call.max_val,
                        dss_call.min_con_tested, dss_call.max_con_tested,
                        dss_call.y, dss_call.dss_type, dss_call.con_scale)

(* C24 *)
\* C24: the IC50 run() reports lies between the smallest and the largest
\* tested concentration.
C24_ReportedIc50Tested ==
    report_result # <<>> =>
        /\ report_call.min_drug_concentration <= report_result[1]
        /\ report_result[1] <= report_call.max_drug_concentration

(* C25 *)
\* C25: the three DSS values are computed from the IC50 as it stands after
\* every override, so a record whose IC50 is the largest tested concentration
\* has DSS1 = DSS2 = DSS3 = 0.
C25_DssZeroAtMaxTested ==
    /\ score # <<>> =>
         \A dss_type \in 1..3 :
            <<score.dss1, score.dss2, score.dss3>>[dss_type] = _calculate_dss(dss_type)
    /\ (pc = "returned" /\ ic50[1] = max_drug_concentration) =>
         /\ drug_results["DSS1"] = Num(0)
         /\ drug_results["DSS2"] = Num(0)
         /\ drug_results["DSS3"] = Num(0)

\* a curve whose fitted IC50 lay below the largest tested concentration, was
\* overridden to it, and is reported with DSS 0
C25_Witness ==
    /\ pc = "returned"
    /\ pow10(lmfit_fitted_model.log10ic50 - 1000 * conversion_unit) < max_drug_concentration
    /\ ic50[1] = max_drug_concentration
    /\ lmfit_fitted_model.slope > 0
    /\ drug_results["DSS1"] = Num(0)
    /\ drug_results["DSS2"] = Num(0)
    /\ drug_results["DSS3"] = Num(0)

(* C26 *)
\* C26: with the adjusted minimum and maximum inhibition being numbers, one of
\* the first three conditions of _calculate_interpolated_values holds, so the
\* branch that aims at the midpoint of the two never runs.
C26_MidpointRegimeUnreached ==
    adjusted # <<>> =>
        /\ interpolation_regime(adjusted) \in {"within", "above", "below"}
        /\ interpolated # <<>> =>
             LET v == calculate_interpolated_values(adjusted, log10dose_fine,
                                                    fitted_curve_fine, conversion_unit)
                 nearest50 == argmin_abs(fitted_curve_fine, 50000)
             IN /\ interpolated.dose_interpolated = v.dose_interpolated
                /\ interpolated.dose_interpolated_at = v.dose_interpolated_at
                /\ interpolated.dose_interpolated_at \in
                     {round1(fitted_curve_fine[nearest50]),
                      round1(SetMin(Range(fitted_curve_fine))),
                      round1(SetMax(Range(fitted_curve_fine)))}

\* a curve on which the first two conditions fail and the third one holds
C26_Witness ==
    /\ interpolated # <<>>
    /\ adjusted.min_inhibition <= 50000
    /\ adjusted.max_inhibition < 50000
    /\ interpolation_regime(adjusted) = "below"

C28_OneRunInProgress ==
    Cardinality({t \in Runs : isRunning(t) \/ InProgress(t)}) <= 1

(* C29 *)
\* C29: every processing run that is started is followed by a state in which
\* the process button is enabled and the status is no longer 'Running...'.
C29_RunEndsReady ==
    \A t \in Runs :
        (threads[t] = "started")
            ~> (window.process_button /\ window.status_label # "Running...")

(* C30 *)
\* C30: a window that holds a result holds the plots of the same processing
\* run, and a file export_plots wrote holds the plots of the run whose result
\* the window held.
C30_PlotsOfHeldResult ==
    /\ window.result # 0 => window.plots = window.result
    /\ (exported # <<>> /\ exported.kind = "pdf") => exported.plots = exported.result

====
